---------------------------- MODULE Spec2Model ----------------------------
(***************************************************************************)
(* cdcgo: content-defined chunking (FastCDC), streaming ChunkReader,       *)
(* dedup ChunkWriter, MemoryIndex / PersistentIndexJSON, FSStorage and     *)
(* Manifest, modelled as state machines.                                   *)
(*                                                                         *)
(* Every component has its own specification over its own variables; the  *)
(* variables of the other components are left unchanged by it:             *)
(*   SpecChunker   NextBoundary loops of two Chunker instances             *)
(*   SpecReader    ChunkReader.Next over an io.Reader                      *)
(*   SpecRerun     two ChunkReader runs over the same bytes                *)
(*   SpecPipeline  ChunkReader, FSStorage.Save, Manifest.VerifyFile        *)
(*   SpecWriter    ChunkWriter.WriteChunk, call after call                 *)
(*   SpecConc      concurrent WriteChunk and Save calls, step by step      *)
(*   SpecIndex     PersistentIndexJSON.Add step by step, with crashes      *)
(***************************************************************************)
EXTENDS Integers, Sequences, FiniteSets, TLC

VARIABLES
    P,          \* *fastcdc.Params shared (by pointer) by every Chunker
    ckData,     \* the byte sequence the chunker test loops walk over
    ckOff,      \* per Chunker instance: offset of the test loop
    ckCuts,     \* per Chunker instance: the cut lengths returned so far
    ckLast,     \* per Chunker instance: the last call (buffer length, cut)
    ckInit      \* Params and data as they were before any call

VARIABLES
    stream,     \* the bytes the source r delivers, in order
    srcPos,     \* how many of them r has delivered
    hashAlgo,   \* ChunkReader.hashAlgo
    buf,        \* ChunkReader.buf
    offset,     \* ChunkReader.offset
    leftover,   \* ChunkReader.leftover
    ret,        \* what the last Next returned
    chunks,     \* the chunk descriptors returned so far, in order
    firstRun    \* the first of two runs over the same bytes, once it is over

VARIABLES
    stFiles,    \* the files under FSStorage.rootDir: file name -> contents
    stIndex,    \* the MemoryIndex of the FSStorage: hex key -> chunk
    saveErr,    \* the error of the last FSStorage.Save
    mChunks,    \* Manifest.Chunks
    verify      \* what Manifest.VerifyFile returned

VARIABLES
    wSink,      \* the bytes the sink w of the ChunkWriter has taken
    wIndex,     \* the MemoryIndex of the ChunkWriter: hex key -> chunk
    wOffset,    \* ChunkWriter.offset
    wRet,       \* what the last WriteChunk returned
    wHist       \* the calls so far, and the writer as it was before the last

VARIABLES
    mu,         \* ChunkWriter.mu and FSStorage.mu: the goroutine holding each
    cwG,        \* per goroutine calling WriteChunk: where it is, what it saw
    fsG         \* per goroutine calling Save: where it is, what it saw

VARIABLES
    disk,       \* the files of the persistent index: file name -> contents
    pStore,     \* PersistentIndexJSON.store
    pAdd,       \* the Add in progress: its position and local variables
    pHist,      \* the hashes whose Add returned nil, and the last Add's maps
    fresh       \* a PersistentIndexJSON constructed anew over the same path

VARIABLES
    mStore,     \* MemoryIndex.store of an index used on its own
    mHist,      \* the Adds done on it: per key the first chunk added
    mGot,       \* what the last Get on it returned
    look,       \* what the last lookup on the PersistentIndexJSON returned
    cons,       \* what the last NewPersistentIndexJSON returned
    rwMu,       \* PersistentIndexJSON.mu: the writer and the readers holding it
    rG,         \* per goroutine calling the PersistentIndexJSON: where it is
    stHist,     \* the Saves done on the FSStorage, and the storage before the last
    stLoad,     \* what the last FSStorage.Load returned
    man,        \* a Manifest, the loader it is checked against and the sink
    mOp         \* what the last Manifest operation did and returned

chunkerVars == <<P, ckData, ckOff, ckCuts, ckLast, ckInit>>

readerVars == <<stream, srcPos, hashAlgo, buf, offset, leftover, ret, chunks, firstRun>>

storeVars == <<stFiles, stIndex, saveErr, mChunks, verify>>

writerVars == <<wSink, wIndex, wOffset, wRet, wHist>>

concVars == <<mu, cwG, fsG>>

indexVars == <<disk, pStore, pAdd, pHist, fresh>>

extVars == <<mStore, mHist, mGot, look, cons, rwMu, rG, stHist, stLoad, man, mOp>>

vars == <<chunkerVars, readerVars, storeVars, writerVars, concVars, indexVars, extVars>>

(***************************************************************************)
(* Bounds of the model.                                                    *)
(***************************************************************************)
MaxLen == 3         \* longest byte sequence / stream
MaxParam == 3       \* MinSize, AvgSize, MaxSize range over 1..MaxParam

\* the byte values that occur in the data
ByteVals == {0, 1}

RECURSIVE SeqsUpTo(_, _)
SeqsUpTo(S, n) ==
    IF n = 0 THEN {<<>>}
    ELSE LET shorter == SeqsUpTo(S, n - 1)
         IN  shorter \cup {Append(s, x) : s \in {t \in shorter : Len(t) = n - 1}, x \in S}

Nil == "nil"

(***************************************************************************)
(* uint64 arithmetic.  A uint64 is four 16-bit limbs, lowest limb first,   *)
(* so that the wrapping of (hash << 1) + table[b] at 2^64 is kept.         *)
(***************************************************************************)
LimbBase == 2^16
Limbs == 1..4

Zero64 == [i \in Limbs |-> 0]

U64OfNat(n) == [i \in Limbs |-> IF i = 1 THEN n % LimbBase
                                ELSE IF i = 2 THEN (n \div LimbBase) % LimbBase
                                ELSE 0]

\* carry into limb i of 2*h + t
RECURSIVE CarryInto(_, _, _)
CarryInto(h, t, i) ==
    IF i = 1 THEN 0
    ELSE (2 * h[i - 1] + t[i - 1] + CarryInto(h, t, i - 1)) \div LimbBase

\* For comparison: a rotation, the bit shifted out of limb 4 coming back in
\* at the low end.
Shl1AddRotate(h, t) ==
    LET top == (2 * h[4] + t[4] + CarryInto(h, t, 4)) \div LimbBase
    IN  [i \in Limbs |-> (2 * h[i] + t[i] + CarryInto(h, t, i)
                             + (IF i = 1 THEN top % 2 ELSE 0)) % LimbBase]

\* hash = (hash << 1) + table[b], wrapping at 2^64 (the carry out of limb 4 is lost)
Shl1Add(h, t) ==
    [i \in Limbs |-> (2 * h[i] + t[i] + CarryInto(h, t, i)) % LimbBase]

RECURSIVE BitAnd(_, _)
BitAnd(a, b) ==
    IF a = 0 \/ b = 0 THEN 0
    ELSE (a % 2) * (b % 2) + 2 * BitAnd(a \div 2, b \div 2)

\* hash & mask, limb by limb
And64(h, m) == [i \in Limbs |-> BitAnd(h[i], m[i])]

(***************************************************************************)
(* Gear tables.  gearTable is the default table (its entries for the byte  *)
(* values 0..3); the others stand for tables made by                       *)
(* NewGearTableFromSeed, whose 256 values are arbitrary 64-bit numbers.    *)
(***************************************************************************)
gearTable ==
    [b \in 0..3 |->
        CASE b = 0 -> <<13350, 220, 29896, 43234>>      \* 0xa8e274c800dc3426
          [] b = 1 -> <<51064, 43008, 45531, 8835>>     \* 0x2283b1dba800c778
          [] b = 2 -> <<14548, 48558, 45842, 32024>>    \* 0x7d18b312bdae38d4
          [] b = 3 -> <<43023, 9879, 30080, 62005>>]    \* 0xf23575802697a80f

\* a seeded table whose entries are all 0xffffffffffffffff: every step wraps
SeedTableOnes == [b \in 0..3 |-> [i \in Limbs |-> LimbBase - 1]]

\* a seeded table with small entries b+1: the low bits follow the content
SeedTableSmall == [b \in 0..3 |-> U64OfNat(b + 1)]

\* The custom tables a *GearTable can point to, by name.
CustomTables == [seedOnes |-> SeedTableOnes, seedSmall |-> SeedTableSmall]

\* Params.Gear: nil, or a pointer to a custom table
GearChoices == {Nil} \cup DOMAIN CustomTables

\* GetGear: the custom table of Params if there is one, else the default
GetGear(p) == IF p.Gear # Nil THEN CustomTables[p.Gear] ELSE gearTable

(***************************************************************************)
(* Params                                                                  *)
(***************************************************************************)
\* for (1 << bits) < avg { bits++ }
RECURSIVE MaskBits(_, _)
MaskBits(avg, bits) == IF 2^bits < avg THEN MaskBits(avg, bits + 1) ELSE bits

NewParams(min, avg, max, gear) ==
    [MinSize |-> min, AvgSize |-> avg, MaxSize |-> max,
     Mask    |-> U64OfNat(2^MaskBits(avg, 0) - 1),
     Gear    |-> gear]

ParamChoices ==
    {NewParams(mn, av, mx, g) : mn \in 1..MaxParam, av \in 1..MaxParam,
                                mx \in 1..MaxParam, g \in GearChoices}

\* MinSize <= AvgSize <= MaxSize: the sane configurations
Ordered(p) == p.MinSize <= p.AvgSize /\ p.AvgSize <= p.MaxSize

(***************************************************************************)
(* The components a specification does not run stay as constructed.        *)
(***************************************************************************)
\* an empty Go map
EmptyMap == [k \in {} |-> Nil]

\* the goroutines that call one object concurrently
Goroutines == 1..2

ChunkerIdle ==
    /\ ckData = <<>>
    /\ ckOff = [c \in 1..2 |-> 0]
    /\ ckCuts = [c \in 1..2 |-> <<>>]
    /\ ckLast = [c \in 1..2 |-> [called |-> FALSE, len |-> 0, cut |-> 0]]
    /\ ckInit = [P |-> P, data |-> <<>>]

ReaderIdle ==
    /\ stream = <<>> /\ srcPos = 0 /\ hashAlgo = "sha256" /\ buf = <<>>
    /\ offset = 0 /\ leftover = 0 /\ ret = [kind |-> "none"]
    /\ chunks = <<>> /\ firstRun = [done |-> FALSE]

\* NewFSStorage(root, index.NewMemoryIndex()), manifest.NewManifest
StoreIdle ==
    /\ stFiles = EmptyMap /\ stIndex = EmptyMap /\ saveErr = Nil
    /\ mChunks = <<>> /\ verify = "none"

\* NewChunkWriter(w, nil)
WriterIdle ==
    /\ wSink = <<>> /\ wIndex = EmptyMap /\ wOffset = 0
    /\ wRet = [called |-> FALSE]
    /\ wHist = [calls |-> 0, done |-> {}, clean |-> TRUE, expect |-> <<>>]

ConcIdle ==
    /\ mu = [cw |-> 0, fs |-> 0]
    /\ cwG = [g \in Goroutines |-> [pc |-> "start", saw |-> "none", wrote |-> FALSE, added |-> FALSE]]
    /\ fsG = [g \in Goroutines |-> [pc |-> "start", saw |-> "none", wrote |-> FALSE, added |-> FALSE]]

IndexIdle ==
    /\ disk = EmptyMap /\ pStore = EmptyMap
    /\ pAdd = [pc |-> "idle"]
    /\ pHist = [added |-> {}, adds |-> 0]
    /\ fresh = [made |-> FALSE]

MemIdle ==
    /\ mStore = EmptyMap
    /\ mHist = [adds |-> 0, first |-> EmptyMap, ret |-> "none"]
    /\ mGot = [called |-> FALSE, ex |-> [called |-> FALSE]]

LookIdle == look = [called |-> FALSE] /\ cons = [made |-> FALSE]

RWIdle ==
    /\ rwMu = [writer |-> 0, readers |-> {}]
    /\ rG = [g \in Goroutines |-> [op |-> "none", pc |-> "start"]]

HistIdle == stHist = [calls |-> 0, saved |-> EmptyMap] /\ stLoad = [called |-> FALSE]

\* no Manifest made
ManIdle == man = [made |-> FALSE] /\ mOp = [op |-> "none"]

ExtIdle == MemIdle /\ LookIdle /\ RWIdle /\ HistIdle /\ ManIdle

(***************************************************************************)
(* Chunker.NextBoundary                                                    *)
(***************************************************************************)
\* For comparison: the loop without the hard limit, cutting only where the
\* hash matches the mask.
RECURSIVE BoundaryLoopNoMax(_, _, _, _)
BoundaryLoopNoMax(p, bs, size, hash) ==
    IF size >= Len(bs) THEN size
    ELSE LET size1 == size + 1
             hash1 == Shl1Add(hash, GetGear(p)[bs[size1]])
         IN  IF size1 < p.MinSize THEN BoundaryLoopNoMax(p, bs, size1, hash1)
             ELSE IF size1 >= p.AvgSize /\ And64(hash1, p.Mask) = Zero64 THEN size1
             ELSE BoundaryLoopNoMax(p, bs, size1, hash1)

\* For comparison: a loop that feeds the hash the byte behind the one it
\* counts (the index taken after size++), where there is one.
RECURSIVE BoundaryLoopLookAhead(_, _, _, _)
BoundaryLoopLookAhead(p, bs, size, hash) ==
    IF size >= Len(bs) THEN size
    ELSE LET size1 == size + 1
             b     == IF size1 < Len(bs) THEN bs[size1 + 1] ELSE bs[size1]
             hash1 == Shl1Add(hash, GetGear(p)[b])
         IN  IF size1 < p.MinSize THEN BoundaryLoopLookAhead(p, bs, size1, hash1)
             ELSE IF size1 >= p.AvgSize /\ And64(hash1, p.Mask) = Zero64 THEN size1
             ELSE IF size1 >= p.MaxSize THEN size1
             ELSE BoundaryLoopLookAhead(p, bs, size1, hash1)

\* The loop of NextBoundary from byte number size+1 on, with the
\* accumulator hash: the cut length it returns.
RECURSIVE BoundaryLoop(_, _, _, _)
BoundaryLoop(p, bs, size, hash) ==
    IF size >= Len(bs) THEN size                       \* return size (buffer exhausted)
    ELSE LET size1 == size + 1
             hash1 == Shl1Add(hash, GetGear(p)[bs[size1]])
         IN  IF size1 < p.MinSize THEN BoundaryLoop(p, bs, size1, hash1)
             ELSE IF size1 >= p.AvgSize /\ And64(hash1, p.Mask) = Zero64 THEN size1
             ELSE IF size1 >= p.MaxSize THEN size1
             ELSE BoundaryLoop(p, bs, size1, hash1)

NextBoundary(p, bs) == BoundaryLoop(p, bs, 0, Zero64)

\* For comparison: a boundary search that keeps state between calls, by
\* raising the MinSize of the shared Params past the cut it found.
NextBoundaryStateful(p, bs) ==
    [cut |-> BoundaryLoop(p, bs, 0, Zero64),
     P   |-> [p EXCEPT !.MinSize = BoundaryLoop(p, bs, 0, Zero64) + 1],
     buf |-> bs]

\* What a NextBoundary call leaves behind in the memory it can reach: the
\* Params behind c.P, the bytes behind the slice bs, and its result.
NextBoundaryCall(p, bs) ==
    [cut |-> NextBoundary(p, bs), P |-> p, buf |-> bs]

(***************************************************************************)
(* The chunker loops of fastcdc_test.go: two Chunker instances over the    *)
(* same &params walk the same data, each calling NextBoundary on the       *)
(* remaining suffix.                                                       *)
(***************************************************************************)
Chunkers == 1..2

Suffix(s, off) == SubSeq(s, off + 1, Len(s))

InitChunker ==
    /\ ReaderIdle /\ StoreIdle /\ WriterIdle /\ ConcIdle /\ IndexIdle /\ ExtIdle
    /\ P \in ParamChoices
    /\ ckData \in SeqsUpTo(ByteVals, MaxLen)
    /\ ckOff = [c \in Chunkers |-> 0]
    /\ ckCuts = [c \in Chunkers |-> <<>>]
    /\ ckLast = [c \in Chunkers |-> [called |-> FALSE, len |-> 0, cut |-> 0]]
    /\ ckInit = [P |-> P, data |-> ckData]

\* cut := chunker.NextBoundary(data[offset:]); cuts = append(cuts, cut); offset += cut
ChunkerCall(c) ==
    /\ ckOff[c] < Len(ckData)
    /\ LET bs == Suffix(ckData, ckOff[c])
           r  == NextBoundaryCall(P, bs)
       IN  /\ P' = r.P
           /\ ckData' = SubSeq(ckData, 1, ckOff[c]) \o r.buf
           /\ ckOff' = [ckOff EXCEPT ![c] = @ + r.cut]
           /\ ckCuts' = [ckCuts EXCEPT ![c] = Append(@, r.cut)]
           /\ ckLast' = [ckLast EXCEPT ![c] = [called |-> TRUE, len |-> Len(bs), cut |-> r.cut]]
    /\ UNCHANGED <<ckInit, readerVars, storeVars, writerVars, concVars, indexVars, extVars>>

NextChunker == \E c \in Chunkers : ChunkerCall(c)

SpecChunker == InitChunker /\ [][NextChunker]_vars

(***************************************************************************)
(* Claims about Chunker                                                    *)
(***************************************************************************)
\* C8: with MinSize <= AvgSize <= MaxSize and any gear table, NextBoundary
\* on a buffer of length L >= MaxSize returns a cut c with
\* MinSize <= c <= MaxSize, and on a buffer with L < MinSize returns c = L.
C8_CutWithinBounds ==
    \A c \in Chunkers :
        (ckLast[c].called /\ Ordered(P)) =>
            /\ ckLast[c].len >= P.MaxSize =>
                  (P.MinSize <= ckLast[c].cut /\ ckLast[c].cut <= P.MaxSize)
            /\ ckLast[c].len < P.MinSize => ckLast[c].cut = ckLast[c].len

\* a call on a buffer of at least MaxSize bytes that cut strictly between
\* MinSize and MaxSize
C8_Witness ==
    /\ Ordered(P)
    /\ \E c \in Chunkers :
          /\ ckLast[c].called
          /\ ckLast[c].len >= P.MaxSize
          /\ P.MinSize < ckLast[c].cut /\ ckLast[c].cut < P.MaxSize

\* s is a prefix of t
IsPrefix(s, t) == Len(s) <= Len(t) /\ SubSeq(t, 1, Len(s)) = s

SupportedAlgos == {"sha256", "sha1", "blake3"}

AlgoTag(algo) == CASE algo = "sha256" -> 1 [] algo = "sha1" -> 2 [] OTHER -> 3

\* the bytes of data as one number (no two sequences share a number)
RECURSIVE Enc(_)
Enc(data) ==
    IF data = <<>> THEN 0
    ELSE (Cardinality(ByteVals) + 1) * Enc(SubSeq(data, 1, Len(data) - 1))
         + data[Len(data)] + 1

\* hasher.Reset(); hasher.Write(data); hasher.Sum(nil): a collision-free digest
Digest(algo, data) == 4 * Enc(data) + AlgoTag(algo)

HexDigit(d) == <<"0", "1", "2", "3", "4", "5", "6", "7",
                 "8", "9", "a", "b", "c", "d", "e", "f">>[d + 1]

\* hex.EncodeToString
RECURSIVE EncodeToString(_)
EncodeToString(h) ==
    IF h < 16 THEN <<HexDigit(h)>>
    ELSE Append(EncodeToString(h \div 16), HexDigit(h % 16))

\* Chunk.HexHash
HexHash(c) == EncodeToString(c.Hash)

(***************************************************************************)
(* The source r of a ChunkReader: an io.Reader over the bytes of stream.   *)
(* One Read into a slice of space bytes returns n bytes and an error: some *)
(* of the bytes left (a short read is allowed), with EOF only once all     *)
(* bytes are delivered, and never (0, nil).                                *)
(***************************************************************************)
MaxBuf == 3         \* bufSize ranges over 1..MaxBuf

Min2(a, b) == IF a < b THEN a ELSE b

ReadOutcomes(space, remaining) ==
    {o \in [n : 0..Min2(space, remaining), err : {"nil", "EOF", "readErr"}] :
        /\ (o.err = "EOF" => o.n = remaining)
        /\ ~(o.n = 0 /\ o.err = "nil")}

\* bytes.Reader: all it can, then (0, EOF)
FullRead(space, remaining) ==
    IF remaining = 0 THEN [n |-> 0, err |-> "EOF"]
    ELSE [n |-> Min2(space, remaining), err |-> "nil"]

(***************************************************************************)
(* ChunkReader                                                             *)
(***************************************************************************)
\* n, err := cr.r.Read(cr.buf[cr.leftover:]): the buffer after the read
ReadInto(b, lo, data) ==
    [i \in 1..Len(b) |-> IF lo < i /\ i <= lo + Len(data) THEN data[i - lo] ELSE b[i]]

\* For comparison: the leftover bytes left where they are.
KeepBuffer(b, cut, total) == b

\* copy(cr.buf[0:], cr.buf[cut:total])
ShiftLeftover(b, cut, total) ==
    [i \in 1..Len(b) |-> IF i <= total - cut THEN b[cut + i] ELSE b[i]]

\* The slice chunkData := cr.buf[:cut] that Next hands back shares the
\* buffer: the caller reads through it what the buffer holds on return.
ReturnedSlice(b, cut) == SubSeq(b, 1, cut)

\* For comparison: every error handed back as io.EOF.
ErrRetAsEOF(e) == [kind |-> "err", err |-> "EOF"]

\* return cdcgo.Chunk{}, []byte{}, err
ErrRet(e) == [kind |-> "err", err |-> e]

\* For comparison: a Next that does not emit the buffered bytes as a final
\* chunk when the source reports EOF.
NextAfterReadNoFinal(b, off, lo, algo, p, n, err) ==
    LET total == lo + n
        same(r) == [buf |-> b, offset |-> off, leftover |-> lo, ret |-> r]
    IN  IF total = 0 /\ err # "nil" THEN same(ErrRet(err))
        ELSE IF n = 0 /\ err # "nil" THEN same(ErrRet(err))
        ELSE LET cut == NextBoundary(p, SubSeq(b, 1, total))
             IN  IF algo \notin SupportedAlgos THEN same(ErrRet("unsupported"))
                 ELSE [buf |-> ShiftLeftover(b, cut, total),
                       offset |-> off + cut, leftover |-> total - cut,
                       ret |-> [kind |-> "chunk", Offset |-> off, Size |-> cut,
                                Hash |-> Digest(algo, SubSeq(b, 1, cut)),
                                dataLen |-> cut]]

\* ChunkReader.Next with the buffer already filled by the Read that
\* returned (n, err): the reader's fields and the return value.
NextAfterRead(b, off, lo, algo, p, n, err) ==
    LET total == lo + n
        same(r) == [buf |-> b, offset |-> off, leftover |-> lo, ret |-> r]
    IN  IF total > 0 /\ err = "EOF" THEN
            \* leftover data at EOF: the final chunk
            IF algo \notin SupportedAlgos THEN same(ErrRet("unsupported"))
            ELSE [buf |-> b, offset |-> off + total, leftover |-> 0,
                  ret |-> [kind |-> "chunk", Offset |-> off, Size |-> total,
                           Hash |-> Digest(algo, SubSeq(b, 1, total)),
                           dataLen |-> total]]
        ELSE IF total = 0 /\ err # "nil" THEN same(ErrRet(err))
        ELSE IF n = 0 /\ err # "nil" THEN same(ErrRet(err))
        ELSE LET cut == NextBoundary(p, SubSeq(b, 1, total))
             IN  IF algo \notin SupportedAlgos THEN same(ErrRet("unsupported"))
                 ELSE [buf |-> ShiftLeftover(b, cut, total),
                       offset |-> off + cut, leftover |-> total - cut,
                       ret |-> [kind |-> "chunk", Offset |-> off, Size |-> cut,
                                Hash |-> Digest(algo, SubSeq(b, 1, cut)),
                                dataLen |-> cut]]

\* NewChunkReader(r, hashAlgo, bufSize, chunker), bufSize > 0
NewChunkReader(algo, bufSize) ==
    [hashAlgo |-> IF algo = "" THEN "sha256" ELSE algo,
     buf |-> [i \in 1..bufSize |-> 0], offset |-> 0, leftover |-> 0]

\* The Params the readers run with: every sane configuration, and two that
\* NewParams accepts although MinSize <= AvgSize <= MaxSize fails.
ReaderParams ==
    {p \in ParamChoices : Ordered(p)}
        \cup {NewParams(2, 1, 1, Nil), NewParams(1, 3, 2, Nil)}

\* the hashAlgo arguments the readers are made with ("" selects sha256)
ReaderAlgos == {"", "blake3"}

\* what a step of the reader leaves alone
readerOnly == <<writerVars, concVars, indexVars, extVars>>

\* the ChunkReader over a source that has delivered nothing yet
ReaderStart ==
    /\ P \in ReaderParams
    /\ ChunkerIdle /\ WriterIdle /\ ConcIdle /\ IndexIdle /\ ExtIdle
    /\ stream \in SeqsUpTo(ByteVals, MaxLen)
    /\ srcPos = 0
    /\ \E algo \in ReaderAlgos : \E bufSize \in 1..MaxBuf :
          LET cr == NewChunkReader(algo, bufSize)
          IN  /\ hashAlgo = cr.hashAlgo
              /\ buf = cr.buf
              /\ offset = cr.offset
              /\ leftover = cr.leftover
    /\ ret = [kind |-> "none"]
    /\ chunks = <<>>
    /\ firstRun = [done |-> FALSE]

InitReader == ReaderStart /\ StoreIdle

\* One call of Next, the source's Read included.
ReaderNextWith(o) ==
    LET b1 == ReadInto(buf, leftover, SubSeq(stream, srcPos + 1, srcPos + o.n))
        r  == NextAfterRead(b1, offset, leftover, hashAlgo, P, o.n, o.err)
    IN  /\ srcPos' = srcPos + o.n
        /\ buf' = r.buf
        /\ offset' = r.offset
        /\ leftover' = r.leftover
        /\ ret' = r.ret
        /\ chunks' = IF r.ret.kind = "chunk"
                     THEN Append(chunks, [Offset |-> r.ret.Offset, Size |-> r.ret.Size,
                                          Hash |-> r.ret.Hash])
                     ELSE chunks
        /\ UNCHANGED <<stream, hashAlgo, firstRun, chunkerVars, readerOnly>>

\* the caller's loop stops at the first error (io.EOF included)
ReaderNext ==
    /\ ret.kind # "err"
    /\ UNCHANGED storeVars
    /\ \E o \in ReadOutcomes(Len(buf) - leftover, Len(stream) - srcPos) :
          ReaderNextWith(o)

NextReader == ReaderNext

SpecReader == InitReader /\ [][NextReader]_vars

\* the bytes the caller sees through the slice of the last return
RetData == ReturnedSlice(buf, ret.dataLen)

\* the stream bytes at [off, off+size)
StreamRange(off, size) == SubSeq(stream, off + 1, off + size)

(***************************************************************************)
(* Two runs over the same bytes: when the first run has reached the end of *)
(* the stream, a second ChunkReader (its own buffer size, its own source   *)
(* over the same bytes, the same Chunker) chunks the sequence again.       *)
(***************************************************************************)
Sizes(cs) == [i \in 1..Len(cs) |-> cs[i].Size]

StreamEnded == ret.kind = "err" /\ ret.err = "EOF"

SecondRun ==
    /\ ~firstRun.done
    /\ StreamEnded
    /\ \E bufSize \in 1..MaxBuf :
          LET cr == NewChunkReader(hashAlgo, bufSize)
          IN  /\ buf' = cr.buf
              /\ offset' = cr.offset
              /\ leftover' = cr.leftover
    /\ firstRun' = [done |-> TRUE, cuts |-> Sizes(chunks), bufSize |-> Len(buf)]
    /\ srcPos' = 0
    /\ ret' = [kind |-> "none"]
    /\ chunks' = <<>>
    /\ UNCHANGED <<stream, hashAlgo, chunkerVars, storeVars, readerOnly>>

NextRerun == ReaderNext \/ SecondRun

\* the runs are compared under the default table
InitRerun == InitReader /\ P.Gear = Nil

SpecRerun == InitRerun /\ [][NextRerun]_vars

(***************************************************************************)
(* Claims about ChunkReader                                                *)
(***************************************************************************)
\* C1: the byte slice Next hands back, as the caller sees it when Next
\* returns, equals the stream bytes at [Offset, Offset+Size) of the chunk.
C1_ReturnedBytesAreStreamRange ==
    ret.kind = "chunk" => RetData = StreamRange(ret.Offset, ret.Size)

\* C7: with a buffer of at least MaxSize bytes every returned chunk, the
\* final one at end-of-stream included, has 1 <= Size <= MaxSize.
C7_SizeWithinMaxSize ==
    (ret.kind = "chunk" /\ Len(buf) >= P.MaxSize)
        => (1 <= ret.Size /\ ret.Size <= P.MaxSize)

\* C10: two runs over the same bytes with the same Params and table yield
\* the same sequence of chunk sizes, whatever the sizes of the sources'
\* Read results and whatever the two buffer capacities >= MaxSize.
C10_SameCutsOnEveryRun ==
    (/\ firstRun.done
     /\ StreamEnded
     /\ firstRun.bufSize >= P.MaxSize
     /\ Len(buf) >= P.MaxSize)
        => Sizes(chunks) = firstRun.cuts

\* the sum of the Sizes of the first n chunks of cs
RECURSIVE SumSizes(_, _)
SumSizes(cs, n) == IF n = 0 THEN 0 ELSE SumSizes(cs, n - 1) + cs[n].Size

\* C11: the first chunk has Offset 0, every chunk's Offset is the sum of the
\* Sizes of the chunks returned before it, and once the stream is read to
\* its end the Sizes add up to the stream length.
C11_OffsetsAndSizesAddUp ==
    /\ \A i \in 1..Len(chunks) : chunks[i].Offset = SumSizes(chunks, i - 1)
    /\ StreamEnded => SumSizes(chunks, Len(chunks)) = Len(stream)

\* a stream of three bytes was read to its end in at least two chunks, the
\* last of them emitted whole from the buffer at EOF
C11_Witness ==
    /\ StreamEnded
    /\ Len(stream) = 3
    /\ Len(chunks) >= 2
    /\ chunks[Len(chunks)].Size >= 2

\* C12: every chunk returned carries the digest, by the selected algorithm,
\* of the stream bytes at [Offset, Offset+Size), the final chunk included.
C12_HashIsDigestOfStreamRange ==
    \A i \in 1..Len(chunks) :
        chunks[i].Hash = Digest(hashAlgo, StreamRange(chunks[i].Offset, chunks[i].Size))

\* a blake3 reader returned, after a first chunk, a final chunk of other
\* bytes that had been shifted to the front of the buffer
C12_Witness ==
    /\ hashAlgo = "blake3"
    /\ StreamEnded
    /\ Len(chunks) >= 2
    /\ chunks[1].Hash # chunks[Len(chunks)].Hash
    /\ chunks[Len(chunks)].Hash =
          Digest("blake3", StreamRange(chunks[Len(chunks)].Offset, chunks[Len(chunks)].Size))

\* C13: with MinSize <= AvgSize <= MaxSize <= buffer capacity, every chunk
\* but the last one of the stream has MinSize <= Size <= MaxSize, however
\* the source splits its data across Read calls.
C13_NonFinalChunksWithinBounds ==
    (Ordered(P) /\ P.MaxSize <= Len(buf)) =>
        \A i \in 1..(Len(chunks) - 1) :
            P.MinSize <= chunks[i].Size /\ chunks[i].Size <= P.MaxSize

(***************************************************************************)
(* MemoryIndex                                                             *)
(***************************************************************************)
\* m[k] = v
Put(m, k, v) == [x \in DOMAIN m \cup {k} |-> IF x = k THEN v ELSE m[x]]

\* delete(m, k); os.Remove
Del(m, k) == [x \in DOMAIN m \ {k} |-> m[x]]

\* For comparison: an Add that registers nothing.
MemAddNothing(store, ch) == store

\* MemoryIndex.Add: m.store[hex.EncodeToString(ch.Hash)] = ch; return nil
MemAdd(store, ch) == Put(store, HexHash(ch), ch)

\* For comparison: an Exists that never finds an entry.
MemExistsNever(store, hash) == FALSE

\* MemoryIndex.Exists
MemExists(store, hash) == hash \in DOMAIN store

\* MemoryIndex.Add: return nil
MemAddErr(store, ch) == Nil

(***************************************************************************)
(* FSStorage over a MemoryIndex.  A file name is the hex key of the chunk  *)
(* (rootDir/<hash>), or that name with ".tmp" appended.                    *)
(***************************************************************************)
\* For comparison: the blob written straight to its final path.
TmpPathSame(path) == path

\* tmpPath := filePath + ".tmp"
TmpPath(path) == Append(path, ".tmp")

\* For comparison: an existence check that never finds the chunk.
ChunkExistsNever(index, hash) == FALSE

\* BaseStorage.ChunkExists, the index being no PersistentIndex
ChunkExists(index, hash) == MemExists(index, hash)

\* How a Save can go: no failure, or the step that fails; a failing Write
\* has put the first n bytes into the temporary file; "renameRm" and
\* "indexRm" are the failures after which os.Remove fails as well.
SaveOutcomes(data) ==
    [fail : {"none", "create", "sync", "close", "rename", "index", "renameRm", "indexRm"},
     n : {Len(data)}]
        \cup [fail : {"write"}, n : 0..(Len(data) - 1)]

\* For comparison: a Save that writes the blob without asking the index first.
FSSaveOverwrite(files, index, ch, data, o) ==
    LET key == HexHash(ch)
        tmpPath == TmpPath(key)
        res(f, i, e) == [files |-> f, index |-> i, err |-> e]
    IN  IF o.fail = "create" THEN res(files, index, "createErr")
        ELSE IF o.fail = "write"
             THEN res(Put(files, tmpPath, SubSeq(data, 1, o.n)), index, "writeErr")
        ELSE IF o.fail \in {"sync", "close"}
             THEN res(Put(files, tmpPath, data), index, o.fail \o "Err")
        ELSE IF o.fail = "rename"
             THEN res(Del(files, tmpPath), index, "renameErr")
        ELSE IF o.fail = "renameRm"
             THEN res(Put(files, tmpPath, data), index, "renameErr")
        ELSE IF o.fail = "index"
             THEN res(Del(Del(files, tmpPath), key), index, "indexErr")
        ELSE IF o.fail = "indexRm"
             THEN res(Put(Del(files, tmpPath), key, data), index, "indexErr")
        ELSE res(Put(Del(files, tmpPath), key, data), MemAdd(index, ch), Nil)

\* For comparison: a Save that leaves the renamed blob in place when the
\* index refuses the chunk.
FSSaveKeepOrphan(files, index, ch, data, o) ==
    LET key == HexHash(ch)
        tmpPath == TmpPath(key)
        res(f, i, e) == [files |-> f, index |-> i, err |-> e]
    IN  IF ChunkExists(index, key) THEN res(files, index, Nil)
        ELSE IF o.fail = "create" THEN res(files, index, "createErr")
        ELSE IF o.fail = "write"
             THEN res(Put(files, tmpPath, SubSeq(data, 1, o.n)), index, "writeErr")
        ELSE IF o.fail \in {"sync", "close"}
             THEN res(Put(files, tmpPath, data), index, o.fail \o "Err")
        ELSE IF o.fail = "rename"
             THEN res(Del(files, tmpPath), index, "renameErr")
        ELSE IF o.fail = "renameRm"
             THEN res(Put(files, tmpPath, data), index, "renameErr")
        ELSE IF o.fail = "index"
             THEN res(Put(Del(files, tmpPath), key, data), index, "indexErr")
        ELSE IF o.fail = "indexRm"
             THEN res(Put(Del(files, tmpPath), key, data), index, "indexErr")
        ELSE res(Put(Del(files, tmpPath), key, data), MemAdd(index, ch), Nil)

\* FSStorage.Save(chunk, data): the files, the index and the error after it
FSSave(files, index, ch, data, o) ==
    LET key == HexHash(ch)
        tmpPath == TmpPath(key)
        res(f, i, e) == [files |-> f, index |-> i, err |-> e]
    IN  IF ChunkExists(index, key) THEN res(files, index, Nil)
        ELSE IF o.fail = "create" THEN res(files, index, "createErr")
        ELSE IF o.fail = "write"
             THEN res(Put(files, tmpPath, SubSeq(data, 1, o.n)), index, "writeErr")
        ELSE IF o.fail \in {"sync", "close"}
             THEN res(Put(files, tmpPath, data), index, o.fail \o "Err")
        ELSE IF o.fail = "rename"
             THEN res(Del(files, tmpPath), index, "renameErr")
        ELSE IF o.fail = "renameRm"
             THEN res(Put(files, tmpPath, data), index, "renameErr")
        ELSE IF o.fail = "index"
             THEN res(Del(Del(files, tmpPath), key), index, "indexErr")
        ELSE IF o.fail = "indexRm"
             THEN res(Put(Del(files, tmpPath), key, data), index, "indexErr")
        ELSE res(Put(Del(files, tmpPath), key, data), MemAdd(index, ch), Nil)

\* For comparison: a Load that looks for the file and not in the index.
FSLoadFromDisk(files, index, hash) ==
    IF hash \notin DOMAIN files THEN [err |-> "ErrNotExist", data |-> <<>>]
    ELSE [err |-> Nil, data |-> files[hash]]

\* FSStorage.Load(hash)
FSLoad(files, index, hash) ==
    IF ~ChunkExists(index, hash) THEN [err |-> "ErrNotExist", data |-> <<>>]
    ELSE IF hash \notin DOMAIN files THEN [err |-> "readErr", data |-> <<>>]
    ELSE [err |-> Nil, data |-> files[hash]]

(***************************************************************************)
(* Chunk.VerifyChunk and Manifest.VerifyFile                               *)
(***************************************************************************)
VerifyChunk(c, data, algo) ==
    IF algo \notin SupportedAlgos THEN "unsupported"
    ELSE IF c.Hash # Digest(algo, data) THEN "hashMismatch"
    ELSE IF c.Size # Len(data) THEN "sizeMismatch"
    ELSE Nil

\* the loop of VerifyFileWithLoader from chunk number i on
RECURSIVE VerifyFrom(_, _, _, _, _)
VerifyFrom(cs, i, algo, files, index) ==
    IF i > Len(cs) THEN Nil
    ELSE LET l == FSLoad(files, index, HexHash(cs[i]))
         IN  IF l.err # Nil THEN l.err
             ELSE IF VerifyChunk(cs[i], l.data, algo) # Nil
                  THEN VerifyChunk(cs[i], l.data, algo)
             ELSE VerifyFrom(cs, i + 1, algo, files, index)

\* Manifest.VerifyFile(s)
VerifyFile(cs, algo, files, index) == VerifyFrom(cs, 1, algo, files, index)

(***************************************************************************)
(* The pipeline of TestPipeline_Full: chunk a bytes.Reader with a          *)
(* ChunkReader whose buffer holds at least MaxSize bytes, Save every       *)
(* returned (chunk, bytes), append the chunk to the manifest, and at the   *)
(* end of the stream VerifyFile against the storage.                       *)
(***************************************************************************)
InitPipeline ==
    /\ ReaderStart /\ StoreIdle
    /\ Ordered(P)
    /\ Len(buf) >= P.MaxSize

\* the chunk of the last return is not saved yet
SavePending == ret.kind = "chunk" /\ Len(mChunks) < Len(chunks)

\* ch, d, err := cr.Next()
PipelineNext ==
    /\ ret.kind # "err" /\ ~SavePending /\ saveErr = Nil
    /\ ReaderNextWith(FullRead(Len(buf) - leftover, Len(stream) - srcPos))
    /\ UNCHANGED storeVars

\* fs.Save(ch, d); m.Chunks = append(m.Chunks, ch)
PipelineSave ==
    /\ SavePending /\ saveErr = Nil
    /\ \E o \in SaveOutcomes(RetData) :
          LET ch == chunks[Len(chunks)]
              r  == FSSave(stFiles, stIndex, ch, RetData, o)
          IN  /\ stFiles' = r.files
              /\ stIndex' = r.index
              /\ saveErr' = r.err
              /\ mChunks' = IF r.err = Nil THEN Append(mChunks, ch) ELSE mChunks
    /\ UNCHANGED <<verify, chunkerVars, readerVars, readerOnly>>

\* m.VerifyFile(fs), after the loop
PipelineVerify ==
    /\ StreamEnded /\ verify = "none"
    /\ verify' = VerifyFile(mChunks, hashAlgo, stFiles, stIndex)
    /\ UNCHANGED <<stFiles, stIndex, saveErr, mChunks, chunkerVars, readerVars, readerOnly>>

NextPipeline == PipelineNext \/ PipelineSave \/ PipelineVerify

SpecPipeline == InitPipeline /\ [][NextPipeline]_vars

\* C2: a stream chunked with ChunkReader, every returned (chunk, bytes)
\* saved with FSStorage.Save and every chunk appended to the Manifest in
\* order: Manifest.VerifyFile against that storage returns no error.
C2_VerifyFileSucceeds == verify # "none" => verify = Nil

(***************************************************************************)
(* ChunkWriter: WriteChunk calls, one after the other, on one writer made  *)
(* by NewChunkWriter.  The sink may fail (taking some of the bytes), and   *)
(* so may the Add of an index that can fail.                               *)
(***************************************************************************)
MaxCalls == 3       \* WriteChunk calls in a run

\* the contents the chunks are made of
WriterData == {<<0>>, <<1>>, <<0, 1>>}

\* the chunk a caller describes the bytes d with
ChunkOf(d) == [Offset |-> 0, Size |-> Len(d), Hash |-> Digest("sha256", d)]

\* cw.w.Write(data) and cw.index.Add(chunk): how they can go
WriteOutcomes(data) ==
    [n : {Len(data)}, err : {Nil}, addErr : {Nil, "indexErr"}]
        \cup [n : 0..Len(data), err : {"writeErr"}, addErr : {Nil}]

\* For comparison: a WriteChunk that registers the chunk in the index
\* before it writes the data.
WriteChunkAddFirst(sink, index, off, ch, data, o) ==
    LET hashkey == EncodeToString(ch.Hash)
        sink1 == sink \o SubSeq(data, 1, o.n)
        res(s, i, f, n, dup, e) ==
            [sink |-> s, index |-> i, offset |-> f,
             ret |-> [called |-> TRUE, n |-> n, duplicate |-> dup, err |-> e]]
    IN  IF MemExists(index, hashkey) THEN res(sink, index, off, 0, TRUE, Nil)
        ELSE IF o.err # Nil THEN res(sink1, MemAdd(index, ch), off, o.n, FALSE, o.err)
        ELSE IF o.addErr # Nil THEN res(sink1, index, off, o.n, FALSE, o.addErr)
        ELSE res(sink1, MemAdd(index, ch), off + o.n, o.n, FALSE, Nil)

\* For comparison: a WriteChunk that writes the data of a duplicate too.
WriteChunkNoSkip(sink, index, off, ch, data, o) ==
    LET hashkey == EncodeToString(ch.Hash)
        sink1 == sink \o SubSeq(data, 1, o.n)
        res(s, i, f, n, dup, e) ==
            [sink |-> s, index |-> i, offset |-> f,
             ret |-> [called |-> TRUE, n |-> n, duplicate |-> dup, err |-> e]]
    IN  IF MemExists(index, hashkey) THEN res(sink1, index, off, 0, TRUE, Nil)
        ELSE IF o.err # Nil THEN res(sink1, index, off, o.n, FALSE, o.err)
        ELSE IF o.addErr # Nil THEN res(sink1, index, off, o.n, FALSE, o.addErr)
        ELSE res(sink1, MemAdd(index, ch), off + o.n, o.n, FALSE, Nil)

\* ChunkWriter.WriteChunk(chunk, data): the writer after it and what it returns
WriteChunk(sink, index, off, ch, data, o) ==
    LET hashkey == EncodeToString(ch.Hash)
        sink1 == sink \o SubSeq(data, 1, o.n)
        res(s, i, f, n, dup, e) ==
            [sink |-> s, index |-> i, offset |-> f,
             ret |-> [called |-> TRUE, n |-> n, duplicate |-> dup, err |-> e]]
    IN  IF MemExists(index, hashkey) THEN res(sink, index, off, 0, TRUE, Nil)
        ELSE IF o.err # Nil THEN res(sink1, index, off, o.n, FALSE, o.err)
        ELSE IF o.addErr # Nil THEN res(sink1, index, off, o.n, FALSE, o.addErr)
        ELSE res(sink1, MemAdd(index, ch), off + o.n, o.n, FALSE, Nil)

\* what a step of the writer leaves alone
writerOnly == <<chunkerVars, readerVars, storeVars, concVars, indexVars, extVars>>

InitWriter ==
    /\ P = NewParams(1, 1, 1, Nil)
    /\ ChunkerIdle /\ ReaderIdle /\ StoreIdle /\ ConcIdle /\ IndexIdle /\ ExtIdle
    /\ WriterIdle

WriterWriteChunk ==
    /\ wHist.calls < MaxCalls
    /\ \E d \in WriterData : \E o \in WriteOutcomes(d) :
          LET ch == ChunkOf(d)
              r  == WriteChunk(wSink, wIndex, wOffset, ch, d, o)
          IN  /\ wSink' = r.sink
              /\ wIndex' = r.index
              /\ wOffset' = r.offset
              /\ wRet' = r.ret
              /\ wHist' = [calls  |-> wHist.calls + 1,
                           clean  |-> wHist.clean /\ r.ret.err = Nil,
                           expect |-> IF r.ret.duplicate THEN wHist.expect
                                      ELSE wHist.expect \o d,
                           done   |-> IF r.ret.err = Nil
                                      THEN wHist.done \cup {ch.Hash} ELSE wHist.done,
                           before |-> [hash |-> ch.Hash,
                                       wasDone |-> ch.Hash \in wHist.done,
                                       retry |-> /\ wRet.called
                                                 /\ wRet.err = "writeErr"
                                                 /\ wHist.before.hash = ch.Hash,
                                       sink |-> wSink, index |-> wIndex,
                                       offset |-> wOffset]]
    /\ UNCHANGED writerOnly

NextWriter == WriterWriteChunk

SpecWriter == InitWriter /\ [][NextWriter]_vars

\* C3: once a WriteChunk for hash h has succeeded on a writer, every later
\* WriteChunk for h returns (0, true, nil), writes nothing to the sink and
\* changes neither the index nor the writer's offset.
C3_LaterWritesAreDuplicates ==
    (wRet.called /\ wHist.before.wasDone) =>
        /\ wRet.n = 0 /\ wRet.duplicate /\ wRet.err = Nil
        /\ wSink = wHist.before.sink
        /\ wIndex = wHist.before.index
        /\ wOffset = wHist.before.offset

\* a hash written earlier was written again, after a write of another hash
C3_Witness ==
    /\ wRet.called /\ wHist.before.wasDone
    /\ Cardinality(wHist.done) >= 2
    /\ Len(wSink) > 0

\* C32: after WriteChunk calls that all returned no error, the sink holds the
\* concatenation, in call order, of the data of exactly the calls that
\* returned duplicate == false, and the writer's offset is the sink's length.
C32_SinkIsConcatenationOfFirstOccurrences ==
    wHist.clean => (wSink = wHist.expect /\ wOffset = Len(wSink))

\* three calls without error, the last one a duplicate, two contents written
C32_Witness ==
    /\ wHist.clean /\ wHist.calls = MaxCalls
    /\ wRet.called /\ wRet.duplicate
    /\ Cardinality(wHist.done) >= 2
    /\ Len(wSink) >= 2

(***************************************************************************)
(* Concurrent calls.  Two goroutines call WriteChunk on one ChunkWriter    *)
(* and two call Save on one FSStorage, all with the same chunk; every      *)
(* statement of a call is a step of its own, so that the calls interleave  *)
(* wherever the mutexes let them.                                          *)
(***************************************************************************)
ConcData == <<0, 1>>

ConcChunk == ChunkOf(ConcData)

\* For comparison: a Lock that never waits.
MutexFreeAlways(holder) == TRUE

\* mu.Lock() returns once no goroutine holds the mutex
MutexFree(holder) == holder = 0

\* goroutine g of G moves to pc, with the fields of upd changed
Moved(G, g, pc, upd) ==
    [G EXCEPT ![g] = [f \in DOMAIN G[g] |->
                        IF f = "pc" THEN pc
                        ELSE IF f \in DOMAIN upd THEN upd[f] ELSE G[g][f]]]

NoUpd == [f \in {} |-> FALSE]

cwFrame == <<fsG, wRet, wHist, storeVars, chunkerVars, readerVars, indexVars, extVars>>

fsFrame == <<cwG, writerVars, saveErr, mChunks, verify, chunkerVars, readerVars, indexVars, extVars>>

\* cw.mu.Lock(); defer cw.mu.Unlock()
CwLock(g) ==
    /\ cwG[g].pc = "start"
    /\ MutexFree(mu.cw)
    /\ mu' = [mu EXCEPT !.cw = g]
    /\ cwG' = Moved(cwG, g, "check", NoUpd)
    /\ UNCHANGED <<wSink, wIndex, wOffset, cwFrame>>

\* if cw.index.Exists(hashkey) { return 0, true, nil }
CwCheck(g) ==
    /\ cwG[g].pc = "check"
    /\ cwG' = IF MemExists(wIndex, EncodeToString(ConcChunk.Hash))
              THEN Moved(cwG, g, "unlock", [saw |-> "present"])
              ELSE Moved(cwG, g, "write", [saw |-> "absent"])
    /\ UNCHANGED <<mu, wSink, wIndex, wOffset, cwFrame>>

\* n, err := cw.w.Write(data); if err != nil { return n, false, err }
CwWrite(g) ==
    /\ cwG[g].pc = "write"
    /\ \E o \in {w \in WriteOutcomes(ConcData) : w.addErr = Nil} :
          /\ wSink' = wSink \o SubSeq(ConcData, 1, o.n)
          /\ cwG' = IF o.err # Nil THEN Moved(cwG, g, "unlock", NoUpd)
                    ELSE Moved(cwG, g, "add", [wrote |-> TRUE])
    /\ UNCHANGED <<mu, wIndex, wOffset, cwFrame>>

\* err = cw.index.Add(chunk); cw.offset += int64(n); return n, false, nil
CwAdd(g) ==
    /\ cwG[g].pc = "add"
    /\ wIndex' = MemAdd(wIndex, ConcChunk)
    /\ wOffset' = wOffset + Len(ConcData)
    /\ cwG' = Moved(cwG, g, "unlock", [added |-> TRUE])
    /\ UNCHANGED <<mu, wSink, cwFrame>>

\* the deferred cw.mu.Unlock()
CwUnlock(g) ==
    /\ cwG[g].pc = "unlock"
    /\ mu' = [mu EXCEPT !.cw = 0]
    /\ cwG' = Moved(cwG, g, "done", NoUpd)
    /\ UNCHANGED <<wSink, wIndex, wOffset, cwFrame>>

\* fs.mu.Lock(); defer fs.mu.Unlock()
FsLock(g) ==
    /\ fsG[g].pc = "start"
    /\ MutexFree(mu.fs)
    /\ mu' = [mu EXCEPT !.fs = g]
    /\ fsG' = Moved(fsG, g, "check", NoUpd)
    /\ UNCHANGED <<stFiles, stIndex, fsFrame>>

\* exists, err := fs.ChunkExists(key); if exists { return nil }
FsCheck(g) ==
    /\ fsG[g].pc = "check"
    /\ fsG' = IF ChunkExists(stIndex, HexHash(ConcChunk))
              THEN Moved(fsG, g, "unlock", [saw |-> "present"])
              ELSE Moved(fsG, g, "create", [saw |-> "absent"])
    /\ UNCHANGED <<mu, stFiles, stIndex, fsFrame>>

\* f, err := os.Create(tmpPath)
FsCreate(g) ==
    /\ fsG[g].pc = "create"
    /\ \/ /\ stFiles' = Put(stFiles, TmpPath(HexHash(ConcChunk)), <<>>)
          /\ fsG' = Moved(fsG, g, "write", NoUpd)
       \/ /\ stFiles' = stFiles
          /\ fsG' = Moved(fsG, g, "unlock", NoUpd)
    /\ UNCHANGED <<mu, stIndex, fsFrame>>

\* f.Write(data); f.Sync(); f.Close()
FsWrite(g) ==
    /\ fsG[g].pc = "write"
    /\ \E n \in 0..Len(ConcData) : \E ok \in BOOLEAN :
          /\ n < Len(ConcData) => ~ok
          /\ stFiles' = Put(stFiles, TmpPath(HexHash(ConcChunk)), SubSeq(ConcData, 1, n))
          /\ fsG' = Moved(fsG, g, IF ok THEN "rename" ELSE "unlock", NoUpd)
    /\ UNCHANGED <<mu, stIndex, fsFrame>>

\* err = os.Rename(tmpPath, filePath); if err != nil { os.Remove(tmpPath) }
FsRename(g) ==
    /\ fsG[g].pc = "rename"
    /\ LET key == HexHash(ConcChunk)
           tmp == TmpPath(key)
       IN  \/ /\ tmp \in DOMAIN stFiles
              /\ stFiles' = Put(Del(stFiles, tmp), key, stFiles[tmp])
              /\ fsG' = Moved(fsG, g, "add", [wrote |-> TRUE])
           \/ /\ stFiles' = Del(stFiles, tmp)
              /\ fsG' = Moved(fsG, g, "unlock", NoUpd)
    /\ UNCHANGED <<mu, stIndex, fsFrame>>

\* fs.index.Add(chunk); return nil
FsAdd(g) ==
    /\ fsG[g].pc = "add"
    /\ stIndex' = MemAdd(stIndex, ConcChunk)
    /\ fsG' = Moved(fsG, g, "unlock", [added |-> TRUE])
    /\ UNCHANGED <<mu, stFiles, fsFrame>>

\* the deferred fs.mu.Unlock()
FsUnlock(g) ==
    /\ fsG[g].pc = "unlock"
    /\ mu' = [mu EXCEPT !.fs = 0]
    /\ fsG' = Moved(fsG, g, "done", NoUpd)
    /\ UNCHANGED <<stFiles, stIndex, fsFrame>>

InitConc ==
    /\ P = NewParams(1, 1, 1, Nil)
    /\ ChunkerIdle /\ ReaderIdle /\ StoreIdle /\ WriterIdle /\ IndexIdle /\ ExtIdle
    /\ ConcIdle

NextConc ==
    \E g \in Goroutines :
        \/ CwLock(g) \/ CwCheck(g) \/ CwWrite(g) \/ CwAdd(g) \/ CwUnlock(g)
        \/ FsLock(g) \/ FsCheck(g) \/ FsCreate(g) \/ FsWrite(g)
        \/ FsRename(g) \/ FsAdd(g) \/ FsUnlock(g)

SpecConc == InitConc /\ [][NextConc]_vars

\* the calls of G that found the hash absent, wrote and registered it
Writers(G) ==
    {g \in Goroutines : G[g].saw = "absent" /\ G[g].wrote /\ G[g].added}

\* a call of G is between its Lock and its Unlock only while it holds the mutex
InCriticalSection(G, holder) ==
    \A g \in Goroutines : G[g].pc \notin {"start", "done"} => holder = g

MaxAdds == 2        \* Add calls in a run

IndexPath == <<"index.json">>

\* For comparison: the new document written straight to the index path.
IndexSamePath(path) == path

\* tmpPath := p.path + ".tmp"
IndexTmpPath(path) == Append(path, ".tmp")

File(data, synced) == [data |-> data, synced |-> synced]

HexVal(c) == CHOOSE d \in 0..15 : HexDigit(d) = c

\* the order of strings, by which encoding/json sorts the keys of a map
RECURSIVE KeyLeq(_, _)
KeyLeq(a, b) ==
    IF a = <<>> THEN TRUE
    ELSE IF b = <<>> THEN FALSE
    ELSE IF a[1] = b[1] THEN KeyLeq(Tail(a), Tail(b))
    ELSE HexVal(a[1]) < HexVal(b[1])

RECURSIVE SortKeys(_)
SortKeys(S) ==
    IF S = {} THEN <<>>
    ELSE LET m == CHOOSE k \in S : \A j \in S : KeyLeq(k, j)
         IN  <<m>> \o SortKeys(S \ {m})

\* json.MarshalIndent(store, "", " ")
Marshal(store) ==
    LET keys == SortKeys(DOMAIN store)
    IN  <<[t |-> "{"]>>
            \o [i \in 1..Len(keys) |-> [t |-> "entry", key |-> keys[i], chunk |-> store[keys[i]]]]
            \o <<[t |-> "}"]>>

\* json.Unmarshal(data, &store): a document that does not run from its
\* opening brace to its closing brace is a syntax error
Unmarshal(data) ==
    IF Len(data) >= 2 /\ data[1].t = "{" /\ data[Len(data)].t = "}"
          /\ \A i \in 2..(Len(data) - 1) : data[i].t = "entry"
    THEN [err |-> Nil,
          store |-> [k \in {data[i].key : i \in 2..(Len(data) - 1)} |->
                        data[CHOOSE i \in 2..(Len(data) - 1) : data[i].key = k].chunk]]
    ELSE [err |-> "syntaxErr", store |-> EmptyMap]

\* NewPersistentIndexJSON(path)
NewPersistentIndexJSON(files, path) ==
    IF path \in DOMAIN files THEN Unmarshal(files[path].data)
    ELSE [err |-> Nil, store |-> EmptyMap]

\* p.load(): the store after it (left as it is when load fails)
Load(store, files, path) ==
    IF path \notin DOMAIN files THEN store
    ELSE IF Unmarshal(files[path].data).err # Nil THEN store
    ELSE Unmarshal(files[path].data).store

\* PersistentIndexJSON.Exists(hash)
PExists(store, files, path, hash) ==
    IF hash \in DOMAIN store THEN TRUE
    ELSE hash \in DOMAIN Load(store, files, path)

\* For comparison: a new map holding the new entry only.
NewStoreWithoutCopy(store, ch) == Put(EmptyMap, EncodeToString(ch.Hash), ch)

\* newStore := copy of p.store; newStore[hex.EncodeToString(ch.Hash)] = ch
NewStore(store, ch) == Put(store, EncodeToString(ch.Hash), ch)

IndexChunks == {ChunkOf(d) : d \in WriterData}

\* For comparison: the new map put in place of p.store before it is persisted.
StoreWhileAddingEarly(store, newStore) == newStore

\* p.store while an Add works on newStore: the map as it was
StoreWhileAdding(store, newStore) == store

\* the prefixes of a sequence
Prefixes(q) == {SubSeq(q, 1, n) : n \in 0..Len(q)}

\* What a crash can leave of the files: a file that was not fsynced may
\* hold any part of what was written to it.
CrashImages(files) ==
    {img \in [DOMAIN files -> UNION {{File(d, TRUE) : d \in Prefixes(files[f].data)} : f \in DOMAIN files}] :
        \A f \in DOMAIN files :
            IF files[f].synced THEN img[f] = files[f]
            ELSE img[f].data \in Prefixes(files[f].data)}

\* what a step of the index leaves alone
indexOnly == <<chunkerVars, readerVars, storeVars, writerVars, concVars, extVars>>

\* The index is constructed over a path that holds no document yet or the
\* document an earlier run left, beside, possibly, a temporary file that a
\* crashed run left half written.
InitIndex ==
    /\ P = NewParams(1, 1, 1, Nil)
    /\ ChunkerIdle /\ ReaderIdle /\ StoreIdle /\ WriterIdle /\ ConcIdle /\ ExtIdle
    /\ \E st \in {EmptyMap} \cup {NewStore(EmptyMap, c) : c \in IndexChunks} :
       \E stale \in BOOLEAN :
          LET doc == IF DOMAIN st = {} THEN EmptyMap
                     ELSE Put(EmptyMap, IndexPath, File(Marshal(st), TRUE))
              all == IF stale
                     THEN Put(doc, IndexTmpPath(IndexPath), File(<<[t |-> "{"]>>, TRUE))
                     ELSE doc
          IN  /\ disk = all
              /\ pStore = NewPersistentIndexJSON(all, IndexPath).store
              /\ pHist = [added |-> DOMAIN st, adds |-> 0, before |-> st, after |-> st]
    /\ pAdd = [pc |-> "idle"]
    /\ fresh = [made |-> FALSE]

\* the Add returns err
AddReturns(e) == pAdd' = [pc |-> "idle", err |-> e]

AddAt(pc) == pAdd' = [pAdd EXCEPT !.pc = pc]

\* p.mu.Lock(); newStore := ...; data, err := json.MarshalIndent(newStore, "", " ")
AddBegin(ch) ==
    /\ pAdd.pc = "idle"
    /\ pHist.adds < MaxAdds
    /\ pAdd' = [pc |-> "create", ch |-> ch, newStore |-> NewStore(pStore, ch),
                data |-> Marshal(NewStore(pStore, ch))]
    /\ pHist' = [pHist EXCEPT !.adds = @ + 1, !.before = pStore,
                              !.after = NewStore(pStore, ch)]
    /\ pStore' = StoreWhileAdding(pStore, NewStore(pStore, ch))
    /\ UNCHANGED <<disk, fresh, indexOnly>>

\* f, err := os.Create(tmpPath)
AddCreate ==
    /\ pAdd.pc = "create"
    /\ \/ /\ disk' = Put(disk, IndexTmpPath(IndexPath), File(<<>>, FALSE))
          /\ AddAt("write")
       \/ /\ disk' = disk
          /\ AddReturns("createErr")
    /\ UNCHANGED <<pStore, pHist, fresh, indexOnly>>

\* f.Write(data): all of data, or a part of it and an error
AddWrite ==
    /\ pAdd.pc = "write"
    /\ \E d \in Prefixes(pAdd.data) :
          /\ disk' = Put(disk, IndexTmpPath(IndexPath), File(d, FALSE))
          /\ IF d = pAdd.data THEN AddAt("sync") ELSE AddReturns("writeErr")
    /\ UNCHANGED <<pStore, pHist, fresh, indexOnly>>

\* f.Sync()
AddSync ==
    /\ pAdd.pc = "sync"
    /\ \/ /\ disk' = [disk EXCEPT ![IndexTmpPath(IndexPath)].synced = TRUE]
          /\ AddAt("close")
       \/ /\ disk' = disk
          /\ AddReturns("syncErr")
    /\ UNCHANGED <<pStore, pHist, fresh, indexOnly>>

\* f.Close()
AddClose ==
    /\ pAdd.pc = "close"
    /\ AddAt("rename") \/ AddReturns("closeErr")
    /\ UNCHANGED <<disk, pStore, pHist, fresh, indexOnly>>

\* os.Rename(tmpPath, p.path)
AddRename ==
    /\ pAdd.pc = "rename"
    /\ LET tmp == IndexTmpPath(IndexPath)
       IN  \/ /\ disk' = Put(Del(disk, tmp), IndexPath, disk[tmp])
              /\ AddAt("commit")
           \/ /\ disk' = disk
              /\ AddReturns("renameErr")
    /\ UNCHANGED <<pStore, pHist, fresh, indexOnly>>

\* p.store = newStore; return nil
AddCommit ==
    /\ pAdd.pc = "commit"
    /\ pStore' = pAdd.newStore
    /\ pHist' = [pHist EXCEPT !.added = @ \cup {EncodeToString(pAdd.ch.Hash)}]
    /\ AddReturns(Nil)
    /\ UNCHANGED <<disk, fresh, indexOnly>>

\* the process dies, at any point; what was not fsynced may be lost
Crash ==
    /\ pAdd.pc # "crashed"
    /\ disk' \in CrashImages(disk)
    /\ pStore' = EmptyMap
    /\ pAdd' = [pc |-> "crashed"]
    /\ UNCHANGED <<pHist, fresh, indexOnly>>

\* the next run constructs the index over the same path and goes on
Restart ==
    /\ pAdd.pc = "crashed"
    /\ NewPersistentIndexJSON(disk, IndexPath).err = Nil
    /\ pStore' = NewPersistentIndexJSON(disk, IndexPath).store
    /\ pAdd' = [pc |-> "idle"]
    /\ UNCHANGED <<disk, pHist, fresh, indexOnly>>

\* A PersistentIndexJSON is constructed anew over the path, and asked
\* Exists for every key.
Reopen ==
    /\ LET r == NewPersistentIndexJSON(disk, IndexPath)
       IN  fresh' = [made |-> TRUE, err |-> r.err, addedThen |-> pHist.added,
                     exists |-> {EncodeToString(c.Hash) : c \in
                                    {x \in IndexChunks :
                                        PExists(r.store, disk, IndexPath,
                                                EncodeToString(x.Hash))}}]
    /\ UNCHANGED <<disk, pStore, pAdd, pHist, indexOnly>>

NextIndex ==
    \/ \E ch \in IndexChunks : AddBegin(ch)
    \/ AddCreate \/ AddWrite \/ AddSync \/ AddClose \/ AddRename \/ AddCommit
    \/ Crash \/ Restart \/ Reopen

SpecIndex == InitIndex /\ [][NextIndex]_vars

\* the document at the index path is the complete document of the map m
\* (no file at all where m is empty and no document was ever written)
PathHolds(m) ==
    IF IndexPath \in DOMAIN disk THEN disk[IndexPath].data = Marshal(m)
    ELSE DOMAIN m = {}

\* C5: at every point of an Add, a crash or a failure after any of its
\* steps included, the document at the index path is the complete map
\* from before the Add or the complete map with the new entry, never a
\* partial or torn document.
C5_DocumentNeverTorn ==
    pHist.adds > 0 => (PathHolds(pHist.before) \/ PathHolds(pHist.after))

\* a crash left the new document half written in the temporary file, beside
\* the document at the path, which is the complete non-empty map from
\* before the Add
C5_Witness ==
    /\ pAdd.pc = "crashed"
    /\ pHist.adds > 0
    /\ DOMAIN pHist.before # {}
    /\ pHist.after # pHist.before
    /\ PathHolds(pHist.before)
    /\ IndexTmpPath(IndexPath) \in DOMAIN disk
    /\ Len(disk[IndexTmpPath(IndexPath)].data) >= 2
    /\ disk[IndexTmpPath(IndexPath)].data \in Prefixes(Marshal(pHist.after))
    /\ Unmarshal(disk[IndexTmpPath(IndexPath)].data).err # Nil

\* C6: after any Adds that returned success on the index of a path, a
\* PersistentIndexJSON constructed anew over that path is constructed
\* without error and reports Exists true for every hash added so far.
C6_AddedHashesSurviveReopen ==
    fresh.made => (fresh.err = Nil /\ fresh.addedThen \subseteq fresh.exists)

\* the index was constructed anew after two Adds of this run had succeeded
C6_Witness ==
    /\ fresh.made
    /\ pHist.adds >= 2
    /\ Cardinality(fresh.addedThen) >= 2
    /\ fresh.addedThen \subseteq fresh.exists

\* ---------------------------------------------------------------------------
\* MemoryIndex used on its own: Add and Get by any caller (SpecMemIndex)
\* ---------------------------------------------------------------------------

MaxMemAdds == 3

MemOffsets == 0..2

\* chunks a caller may register: the same content found at several offsets
MemChunks == {[Offset |-> o, Size |-> Len(d), Hash |-> Digest("sha256", d)] :
                  o \in MemOffsets, d \in WriterData}

\* types.Chunk{}: the zero value returned for a miss
ZeroChunk == [Offset |-> 0, Size |-> 0, Hash |-> 0]

\* MemoryIndex.Get: ch, ok := m.store[hash]
MemGet(store, hash) ==
    IF hash \in DOMAIN store THEN [ch |-> store[hash], ok |-> TRUE]
    ELSE [ch |-> ZeroChunk, ok |-> FALSE]

memOnly == <<chunkerVars, readerVars, storeVars, writerVars, concVars, indexVars,
             look, cons, rwMu, rG, stHist, stLoad, man, mOp>>

\* the objects of the chunking pipeline, constructed and not used
BaseIdle ==
    /\ P = NewParams(1, 1, 1, Nil)
    /\ ChunkerIdle /\ ReaderIdle /\ StoreIdle /\ WriterIdle /\ ConcIdle

InitMemIndex ==
    /\ BaseIdle /\ IndexIdle
    /\ MemIdle /\ LookIdle /\ RWIdle /\ HistIdle /\ ManIdle

\* m.Add(ch); mHist.first keeps the first chunk added under each key
MemAddCall ==
    /\ mHist.adds < MaxMemAdds
    /\ \E ch \in MemChunks :
        /\ mStore' = MemAdd(mStore, ch)
        /\ mHist' = [adds |-> mHist.adds + 1,
                     first |-> IF HexHash(ch) \in DOMAIN mHist.first THEN mHist.first
                               ELSE Put(mHist.first, HexHash(ch), ch),
                     ret |-> MemAddErr(mStore, ch)]
    /\ UNCHANGED <<mGot, memOnly>>

\* m.Get(hash)
MemGetCall ==
    /\ \E ch \in MemChunks :
        LET r == MemGet(mStore, HexHash(ch))
        IN mGot' = [called |-> TRUE, hash |-> HexHash(ch), ch |-> r.ch, ok |-> r.ok,
                    added |-> DOMAIN mHist.first, ex |-> mGot.ex]
    /\ UNCHANGED <<mStore, mHist, memOnly>>

\* m.Exists(hash); added is the set of keys of the Adds done before the call
MemExistsCall ==
    /\ \E ch \in MemChunks :
        mGot' = [mGot EXCEPT !.ex = [called |-> TRUE, hash |-> HexHash(ch),
                                     ok |-> MemExists(mStore, HexHash(ch)),
                                     added |-> DOMAIN mHist.first]]
    /\ UNCHANGED <<mStore, mHist, memOnly>>

NextMemIndex == MemAddCall \/ MemGetCall \/ MemExistsCall

SpecMemIndex == InitMemIndex /\ [][NextMemIndex]_vars

\* C14: an index holds one entry per distinct hash and the first writer wins:
\* Add of a chunk whose hex hash already has an entry leaves that entry as it
\* was, so Get(hash) keeps returning the first chunk added for the hash, with
\* its Offset and Size.
C14_FirstWriterWins ==
    /\ DOMAIN mStore = DOMAIN mHist.first
    /\ \A k \in DOMAIN mStore : mStore[k] = mHist.first[k]
    /\ (mGot.called /\ mGot.ok) => mGot.ch = mHist.first[mGot.hash]

\* C31: MemoryIndex.Add always returns nil; Exists(h) is true and Get(h)
\* returns (chunk, true) with that hash exactly when an earlier Add had hex
\* hash h, otherwise Exists(h) is false and Get(h) returns (zero chunk, false);
\* no operation removes an entry.
C31_MemoryIndexNeverFailsNorForgets ==
    /\ mHist.adds > 0 => mHist.ret = Nil
    /\ DOMAIN mStore = DOMAIN mHist.first
    /\ \A k \in DOMAIN mStore : HexHash(mStore[k]) = k
    /\ mGot.called =>
          /\ mGot.ok <=> mGot.hash \in mGot.added
          /\ mGot.ok => HexHash(mGot.ch) = mGot.hash
          /\ ~mGot.ok => mGot.ch = ZeroChunk
    /\ mGot.ex.called => (mGot.ex.ok <=> mGot.ex.hash \in mGot.ex.added)

\* a hit and a miss have been returned by Get, and Exists has answered true
\* after several Adds
C31_Witness ==
    /\ mHist.adds >= 2
    /\ mGot.called /\ mGot.ok /\ mGot.added # {}
    /\ mGot.ex.called /\ mGot.ex.ok

\* ---------------------------------------------------------------------------
\* PersistentIndexJSON: construction over any file, lookups with reload
\* (SpecLookup)
\* ---------------------------------------------------------------------------

\* the stores a document can describe
LookStores == {EmptyMap} \cup {NewStore(EmptyMap, c) : c \in IndexChunks}
                  \cup {NewStore(NewStore(EmptyMap, c), d) : c, d \in IndexChunks}

\* the contents of a file that is not a whole document: cut short or empty
TornDocs == UNION {Prefixes(Marshal(st)) \ {Marshal(st)} : st \in LookStores}

ValidDocs == {Marshal(st) : st \in LookStores}

LookKeys == {HexHash(c) : c \in IndexChunks}

\* For comparison: a constructor that swallows the read or parse error and
\* hands out an index with an empty store.
NewIndexObjectLenient(files, path) ==
    [idx |-> "index", err |-> Nil, store |-> NewPersistentIndexJSON(files, path).store]

\* NewPersistentIndexJSON's two results: (nil, err) or (idx, nil)
NewIndexObject(files, path) ==
    LET r == NewPersistentIndexJSON(files, path)
    IN  IF r.err # Nil THEN [idx |-> Nil, err |-> r.err, store |-> EmptyMap]
        ELSE [idx |-> "index", err |-> Nil, store |-> r.store]

\* the error p.load() returns
LoadErr(files, path) ==
    IF path \notin DOMAIN files THEN "notExist"
    ELSE Unmarshal(files[path].data).err

\* For comparison: a lookup that hands the reload error to its caller.
LookupErrSurfaced(loadErr) == loadErr

\* ExistsWithErr / GetWithErr: the result of p.load() is dropped and the
\* error returned is always nil
LookupErr(loadErr) == Nil

LookOps == {"Exists", "ExistsWithErr", "Get", "GetWithErr"}

\* one lookup, from lock to unlock: the store after it and what is returned
Lookup(store, files, path, op, hash) ==
    LET hit    == hash \in DOMAIN store
        lerr   == IF hit THEN Nil ELSE LoadErr(files, path)
        store2 == IF hit THEN store ELSE Load(store, files, path)
        ok     == hash \in DOMAIN store2
    IN  [store |-> store2,
         rec |-> [called |-> TRUE, op |-> op, hash |-> hash, missed |-> ~hit,
                  loadErr |-> lerr, ok |-> ok,
                  ch |-> IF ok /\ op \in {"Get", "GetWithErr"} THEN store2[hash] ELSE ZeroChunk,
                  err |-> IF op \in {"ExistsWithErr", "GetWithErr"} THEN LookupErr(lerr) ELSE Nil,
                  known |-> hash \in DOMAIN store
                            \/ (path \in DOMAIN files
                                /\ \E i \in 1..Len(files[path].data) :
                                      files[path].data[i].t = "entry" /\ files[path].data[i].key = hash)]]

lookOnly == <<chunkerVars, readerVars, storeVars, writerVars, concVars, pAdd, pHist, fresh,
              mStore, mHist, mGot, rwMu, rG, stHist, stLoad, man, mOp>>

\* before the constructor is called: any file, or none, at the index path
InitLookup ==
    /\ BaseIdle /\ MemIdle /\ RWIdle /\ HistIdle /\ ManIdle
    /\ pAdd = [pc |-> "idle"] /\ pHist = [added |-> {}, adds |-> 0] /\ fresh = [made |-> FALSE]
    /\ pStore = EmptyMap
    /\ disk \in {EmptyMap} \cup {Put(EmptyMap, IndexPath, File(d, TRUE)) : d \in ValidDocs \cup TornDocs}
    /\ LookIdle

\* idx, err := NewPersistentIndexJSON(path)
Construct ==
    /\ ~cons.made
    /\ LET r == NewIndexObject(disk, IndexPath)
       IN  /\ cons' = [made |-> TRUE, idx |-> r.idx, err |-> r.err,
                       fileExisted |-> IndexPath \in DOMAIN disk,
                       valid |-> IndexPath \in DOMAIN disk /\ disk[IndexPath].data \in ValidDocs,
                       store |-> r.store, adds |-> 0, damaged |-> FALSE]
           /\ pStore' = r.store
    /\ UNCHANGED <<disk, look, lookOnly>>

\* idx.Add(ch), run to its end: the document is replaced through the
\* temporary file, or os.Create fails and nothing changes
LookAdd ==
    /\ cons.made /\ cons.idx # Nil /\ cons.adds < MaxAdds
    /\ \E ch \in IndexChunks : \E o \in {"ok", "createErr"} :
        IF o = "ok"
        THEN /\ disk' = Put(Del(disk, IndexTmpPath(IndexPath)), IndexPath,
                            File(Marshal(NewStore(pStore, ch)), TRUE))
             /\ pStore' = NewStore(pStore, ch)
             /\ cons' = [cons EXCEPT !.adds = @ + 1]
        ELSE UNCHANGED <<disk, pStore, cons>>
    /\ UNCHANGED <<look, lookOnly>>

\* something outside the index leaves the document cut short, or removes it
DocumentDamaged ==
    /\ cons.made /\ cons.idx # Nil /\ ~cons.damaged
    /\ IndexPath \in DOMAIN disk
    /\ \/ \E d \in Prefixes(disk[IndexPath].data) \ {disk[IndexPath].data} :
             disk' = Put(disk, IndexPath, File(d, TRUE))
       \/ disk' = Del(disk, IndexPath)
    /\ cons' = [cons EXCEPT !.damaged = TRUE]
    /\ UNCHANGED <<pStore, look, lookOnly>>

\* idx.Exists / ExistsWithErr / Get / GetWithErr (hash)
LookupCall ==
    /\ cons.made /\ cons.idx # Nil
    /\ \E op \in LookOps : \E hash \in LookKeys :
        LET r == Lookup(pStore, disk, IndexPath, op, hash)
        IN  /\ pStore' = r.store
            /\ look' = r.rec
    /\ UNCHANGED <<disk, cons, lookOnly>>

NextLookup == Construct \/ LookAdd \/ DocumentDamaged \/ LookupCall

SpecLookup == InitLookup /\ [][NextLookup]_vars

\* C15: when a lookup misses in memory and the reload of the document fails
\* (file unreadable or unparsable), Exists returns false, and ExistsWithErr
\* and GetWithErr return that reload error to the caller.
C15_ReloadErrorIsReturned ==
    (look.called /\ look.missed /\ look.loadErr # Nil) =>
        /\ look.op = "Exists" => ~look.ok
        /\ look.op \in {"ExistsWithErr", "GetWithErr"} => look.err = look.loadErr

\* C16: on an index constructed over a path with no document yet and with no
\* Add done, ExistsWithErr for an unknown hash returns (false, nil) and
\* GetWithErr for an unknown hash returns not found with a nil error.
C16_NoDocumentLookupIsCleanMiss ==
    (/\ cons.made /\ ~cons.fileExisted /\ cons.adds = 0
     /\ look.called /\ look.op \in {"ExistsWithErr", "GetWithErr"} /\ ~look.known) =>
        /\ ~look.ok /\ look.err = Nil
        /\ look.op = "GetWithErr" => look.ch = ZeroChunk

C16_Witness ==
    /\ cons.made /\ ~cons.fileExisted /\ cons.adds = 0 /\ ~cons.damaged
    /\ IndexPath \notin DOMAIN disk
    /\ look.called /\ look.op = "GetWithErr" /\ ~look.known
    /\ look.missed /\ look.loadErr = "notExist" /\ ~look.ok /\ look.err = Nil

MaxRwOps == 2       \* calls made by each goroutine

RwOps == {"Add", "ExistsWithErr", "GetWithErr"}

\* p.mu.Lock() can return: no writer and no reader holds the lock
CanLock(m) == m.writer = 0 /\ m.readers = {}

\* p.mu.RLock() can return: no writer holds the lock
CanRLock(m) == m.writer = 0

\* the statements that assign p.store, and those that read it
WritePcs == {"commit", "assign"}

ReadPcs == {"persist", "check", "recheck"}

rwOnly == <<chunkerVars, readerVars, storeVars, writerVars, concVars, pAdd, pHist, fresh,
            mStore, mHist, mGot, look, cons, stHist, stLoad, man, mOp>>

\* an index opened over its own document, or over no document
InitRW ==
    /\ BaseIdle /\ MemIdle /\ LookIdle /\ HistIdle /\ ManIdle
    /\ pAdd = [pc |-> "idle"] /\ pHist = [added |-> {}, adds |-> 0] /\ fresh = [made |-> FALSE]
    /\ \E st \in {EmptyMap} \cup {NewStore(EmptyMap, c) : c \in IndexChunks} :
          /\ pStore = st
          /\ disk = IF st = EmptyMap THEN EmptyMap
                    ELSE Put(EmptyMap, IndexPath, File(Marshal(st), TRUE))
    /\ rwMu = [writer |-> 0, readers |-> {}]
    /\ rG = [g \in Goroutines |-> [op |-> "none", pc |-> "start", n |-> 0]]

RwStep(g, r) == rG' = [rG EXCEPT ![g] = r]

\* a goroutine calls Add(ch), ExistsWithErr(hash) or GetWithErr(hash)
RwCall(g) ==
    /\ rG[g].pc \in {"start", "done"} /\ rG[g].n < MaxRwOps
    /\ \E op \in RwOps : \E c \in IndexChunks :
          RwStep(g, [op |-> op, pc |-> "lock", ch |-> c, tmp |-> EmptyMap, n |-> rG[g].n + 1])
    /\ UNCHANGED <<disk, pStore, rwMu, rwOnly>>

\* p.mu.Lock() in Add and ExistsWithErr, p.mu.RLock() in GetWithErr
RwAcquire(g) ==
    /\ rG[g].pc = "lock"
    /\ IF rG[g].op = "GetWithErr"
       THEN CanRLock(rwMu) /\ rwMu' = [rwMu EXCEPT !.readers = @ \cup {g}]
       ELSE CanLock(rwMu) /\ rwMu' = [rwMu EXCEPT !.writer = g]
    /\ RwStep(g, [rG[g] EXCEPT !.pc = IF rG[g].op = "Add" THEN "persist" ELSE "check"])
    /\ UNCHANGED <<disk, pStore, rwOnly>>

\* Add: copy p.store, add the entry, write the document through the temp file
RwPersist(g) ==
    /\ rG[g].pc = "persist"
    /\ LET new == NewStore(pStore, rG[g].ch)
       IN  /\ disk' = Put(disk, IndexPath, File(Marshal(new), TRUE))
           /\ RwStep(g, [rG[g] EXCEPT !.pc = "commit", !.tmp = new])
    /\ UNCHANGED <<pStore, rwMu, rwOnly>>

\* Add: p.store = newStore
RwCommit(g) ==
    /\ rG[g].pc = "commit"
    /\ pStore' = rG[g].tmp
    /\ RwStep(g, [rG[g] EXCEPT !.pc = "unlock"])
    /\ UNCHANGED <<disk, rwMu, rwOnly>>

\* lookups: if _, ok := p.store[hash]; ok { return }
RwCheck(g) ==
    /\ rG[g].pc = "check"
    /\ RwStep(g, [rG[g] EXCEPT !.pc = IF HexHash(rG[g].ch) \in DOMAIN pStore
                                      THEN "unlock" ELSE "load"])
    /\ UNCHANGED <<disk, pStore, rwMu, rwOnly>>

\* load: os.ReadFile and json.Unmarshal into tmp; an error returns early
RwLoad(g) ==
    /\ rG[g].pc = "load"
    /\ IF LoadErr(disk, IndexPath) = Nil
       THEN RwStep(g, [rG[g] EXCEPT !.pc = "assign", !.tmp = Unmarshal(disk[IndexPath].data).store])
       ELSE RwStep(g, [rG[g] EXCEPT !.pc = "recheck"])
    /\ UNCHANGED <<disk, pStore, rwMu, rwOnly>>

\* load: p.store = tmp
RwAssign(g) ==
    /\ rG[g].pc = "assign"
    /\ pStore' = rG[g].tmp
    /\ RwStep(g, [rG[g] EXCEPT !.pc = "recheck"])
    /\ UNCHANGED <<disk, rwMu, rwOnly>>

\* lookups: _, ok := p.store[hash] after the reload
RwRecheck(g) ==
    /\ rG[g].pc = "recheck"
    /\ RwStep(g, [rG[g] EXCEPT !.pc = "unlock"])
    /\ UNCHANGED <<disk, pStore, rwMu, rwOnly>>

\* the deferred p.mu.Unlock() / p.mu.RUnlock()
RwRelease(g) ==
    /\ rG[g].pc = "unlock"
    /\ rwMu' = IF rG[g].op = "GetWithErr" THEN [rwMu EXCEPT !.readers = @ \ {g}]
               ELSE [rwMu EXCEPT !.writer = 0]
    /\ RwStep(g, [rG[g] EXCEPT !.pc = "done"])
    /\ UNCHANGED <<disk, pStore, rwOnly>>

NextRW ==
    \E g \in Goroutines :
        \/ RwCall(g) \/ RwAcquire(g) \/ RwPersist(g) \/ RwCommit(g) \/ RwCheck(g)
        \/ RwLoad(g) \/ RwAssign(g) \/ RwRecheck(g) \/ RwRelease(g)

SpecRW == InitRW /\ [][NextRW]_vars

\* between the lock and the unlock of a call
InCall(g) == rG[g].pc \in {"persist", "commit", "check", "load", "assign", "recheck", "unlock"}

\* C17: the index is safe for concurrent use: Add calls are serialized with
\* each other and with reads, p.store is written only while the exclusive
\* lock is held, and no write of p.store overlaps another goroutine's read
\* or write of it.
C17_MapWrittenOnlyUnderExclusiveLock ==
    /\ \A g, h \in Goroutines : (g # h /\ InCall(g) /\ rG[g].op = "Add") => ~InCall(h)
    /\ \A g \in Goroutines : rG[g].pc \in WritePcs => rwMu.writer = g
    /\ \A g, h \in Goroutines :
          (g # h /\ rG[g].pc \in WritePcs) => rG[h].pc \notin (WritePcs \cup ReadPcs)

\* ---------------------------------------------------------------------------
\* FSStorage over a MemoryIndex: any sequence of Save and Load (SpecStorage)
\* ---------------------------------------------------------------------------

MaxSaves == 2

\* the contents whose digests callers save under
StHashed == {<<0>>, <<0, 1>>}

StKeys == {HexHash(ChunkOf(d)) : d \in StHashed}

storageOnly == <<chunkerVars, readerVars, mChunks, verify, writerVars, concVars, indexVars,
                 mStore, mHist, mGot, look, cons, rwMu, rG, man, mOp>>

InitStorage ==
    /\ BaseIdle /\ IndexIdle /\ MemIdle /\ LookIdle /\ RWIdle /\ ManIdle
    /\ stHist = [calls |-> 0, saved |-> EmptyMap, nils |-> EmptyMap, tried |-> {},
                 last |-> [err |-> "none"], rmFailed |-> FALSE]
    /\ stLoad = [called |-> FALSE]

\* fs.Save(ch, data): ch carries any of the hashes, data is any of the
\* values, and any step of the Save may fail
StorageSave ==
    /\ stHist.calls < MaxSaves
    /\ \E hd \in StHashed : \E data \in WriterData : \E o \in SaveOutcomes(data) :
        LET ch  == ChunkOf(hd)
            key == HexHash(ch)
            r   == FSSave(stFiles, stIndex, ch, data, o)
            cnt == IF key \in DOMAIN stHist.nils THEN stHist.nils[key] ELSE 0
        IN  /\ stFiles' = r.files
            /\ stIndex' = r.index
            /\ saveErr' = r.err
            /\ stHist' = [calls |-> stHist.calls + 1,
                          saved |-> IF r.err = Nil /\ key \notin DOMAIN stHist.saved
                                    THEN Put(stHist.saved, key, data) ELSE stHist.saved,
                          nils  |-> IF r.err = Nil THEN Put(stHist.nils, key, cnt + 1)
                                    ELSE stHist.nils,
                          tried |-> stHist.tried \cup {key},
                          last  |-> [key |-> key, data |-> data, err |-> r.err,
                                     had |-> ChunkExists(stIndex, key),
                                     filesBefore |-> stFiles, fail |-> o.fail],
                          rmFailed |-> stHist.rmFailed
                                       \/ (~ChunkExists(stIndex, key)
                                           /\ o.fail \in {"renameRm", "indexRm"})]
    /\ UNCHANGED <<stLoad, storageOnly>>

\* fs.Load(hash)
StorageLoad ==
    /\ \E key \in StKeys :
        LET r == FSLoad(stFiles, stIndex, key)
        IN  stLoad' = [called |-> TRUE, hash |-> key, err |-> r.err, data |-> r.data,
                       at |-> stHist.calls, wasSaved |-> key \in DOMAIN stHist.saved,
                       indexed |-> key \in DOMAIN stIndex,
                       fileThere |-> key \in DOMAIN stFiles]
    /\ UNCHANGED <<stFiles, stIndex, saveErr, stHist, storageOnly>>

NextStorage == StorageSave \/ StorageLoad

SpecStorage == InitStorage /\ [][NextStorage]_vars

\* C19: Save is idempotent: Save of a chunk whose hash is already in the
\* index returns nil and writes nothing to the filesystem; after the same
\* chunk was saved twice the directory holds the blob named hex(hash) and no
\* temporary file for it (it is the only file when no other hash was saved),
\* and Load returns the original bytes after each Save.
C19_SaveIsIdempotent ==
    /\ (stHist.calls > 0 /\ stHist.last.had) =>
           (stHist.last.err = Nil /\ stFiles = stHist.last.filesBefore)
    /\ \A k \in DOMAIN stHist.nils :
          /\ FSLoad(stFiles, stIndex, k) = [err |-> Nil, data |-> stHist.saved[k]]
          /\ stHist.nils[k] >= 2 =>
                /\ k \in DOMAIN stFiles /\ TmpPath(k) \notin DOMAIN stFiles
                /\ stHist.tried = {k} => DOMAIN stFiles = {k}

C19_Witness ==
    /\ stHist.calls = 2 /\ stHist.tried = {stHist.last.key}
    /\ stHist.last.key \in DOMAIN stHist.nils
    /\ stHist.nils[stHist.last.key] = 2
    /\ stHist.last.had /\ stHist.last.data = stHist.saved[stHist.last.key]
    /\ Len(stHist.last.data) = 2
    /\ DOMAIN stFiles = {stHist.last.key}
    /\ stLoad.called /\ stLoad.at = 2 /\ stLoad.hash = stHist.last.key
    /\ stLoad.err = Nil /\ stLoad.data = stHist.last.data

\* C20: after Save(chunk, data) returned nil for a hash not stored before,
\* Load(hex(hash)) returns exactly data, and keeps returning those bytes
\* after any later Save calls, a later Save with the same hash and other
\* data included (blobs are write-once).
C20_LoadReturnsFirstSavedBytes ==
    /\ \A k \in DOMAIN stHist.saved :
          /\ ChunkExists(stIndex, k)
          /\ k \in DOMAIN stFiles /\ stFiles[k] = stHist.saved[k]
    /\ (stLoad.called /\ stLoad.wasSaved) =>
           (stLoad.err = Nil /\ stLoad.data = stHist.saved[stLoad.hash])

C20_Witness ==
    /\ stLoad.called /\ stLoad.wasSaved /\ stLoad.at = stHist.calls
    /\ stHist.calls >= 2 /\ stHist.last.key = stLoad.hash /\ stHist.last.err = Nil
    /\ stHist.last.data # stLoad.data
    /\ stLoad.err = Nil /\ stLoad.data = stHist.saved[stLoad.hash]

\* C21: Load treats the index as authoritative: for a hash that is absent
\* from the index it returns os.ErrNotExist and no data, even when a file of
\* that name is in the store directory.
C21_LoadGatedByIndex ==
    (stLoad.called /\ ~stLoad.indexed) =>
        (stLoad.err = "ErrNotExist" /\ stLoad.data = <<>>)

C21_Witness ==
    /\ stLoad.called /\ ~stLoad.indexed /\ stLoad.fileThere
    /\ stLoad.hash \in DOMAIN stFiles /\ Len(stFiles[stLoad.hash]) = 2
    /\ stLoad.err = "ErrNotExist" /\ stLoad.data = <<>>

\* C22: when Index.Add fails after the blob was renamed to its final path,
\* Save returns an error, deletes the blob and leaves the hash unindexed;
\* hence, as long as no removal has failed, after every Save a file at the
\* final path hex(hash) exists only if the index holds that hash.
C22_NoOrphanBlob ==
    /\ (stHist.calls > 0 /\ ~stHist.last.had /\ stHist.last.fail = "index") =>
          /\ stHist.last.err # Nil /\ saveErr = stHist.last.err
          /\ stHist.last.key \notin DOMAIN stFiles
          /\ ~ChunkExists(stIndex, stHist.last.key)
    /\ ~stHist.rmFailed =>
          \A k \in StKeys : k \in DOMAIN stFiles => ChunkExists(stIndex, k)

C22_Witness ==
    /\ stHist.calls = 2 /\ ~stHist.rmFailed
    /\ ~stHist.last.had /\ stHist.last.fail = "index" /\ stHist.last.err = "indexErr"
    /\ Len(stHist.last.data) = 2
    /\ stHist.last.key \notin DOMAIN stFiles
    /\ \E k \in StKeys : k \in DOMAIN stFiles /\ ChunkExists(stIndex, k)

\* ---------------------------------------------------------------------------
\* Manifest: VerifyFileWithLoader and ReassembleWithLoader over any manifest
\* value, any loader and a sink that may fail (SpecManifest)
\* ---------------------------------------------------------------------------

MaxChunks == 2      \* chunks in a manifest

\* the contents chunks are made of
ManData == {<<0>>, <<0, 1>>}

ManKeys == {HexHash(ChunkOf(d)) : d \in ManData}

ManAlgos == {"sha256", "md5"}

\* loaders as in makeLoader: a map from hash to bytes, any bytes
ManLoaders == UNION {[K -> ManData] : K \in SUBSET ManKeys}

\* the sink: the k-th Write fails after taking n bytes (k = 0: none fails)
SinkFaults == {[k |-> 0, n |-> 0]} \cup [k : 1..MaxChunks, n : 0..1]

RECURSIVE Concat(_)
Concat(ds) == IF ds = <<>> THEN <<>> ELSE Head(ds) \o Concat(Tail(ds))

RECURSIVE TotalLen(_, _)
TotalLen(ds, n) == IF n = 0 THEN 0 ELSE TotalLen(ds, n - 1) + Len(ds[n])

\* load(hash) of the test loader
LoaderGet(loader, key) ==
    IF key \in DOMAIN loader THEN [err |-> Nil, data |-> loader[key]]
    ELSE [err |-> "notFound", data |-> <<>>]

\* For comparison: a verification that goes on to the later chunks after a
\* failure and reports the first error at the end.
RECURSIVE VerifyLoopAll(_, _, _, _, _)
VerifyLoopAll(cs, i, algo, loader, calls) ==
    IF i > Len(cs) THEN [err |-> Nil, at |-> 0, calls |-> calls]
    ELSE LET key  == HexHash(cs[i])
             l    == LoaderGet(loader, key)
             v    == IF l.err # Nil THEN l.err ELSE VerifyChunk(cs[i], l.data, algo)
             rest == VerifyLoopAll(cs, i + 1, algo, loader, Append(calls, key))
         IN  IF v # Nil THEN [err |-> v, at |-> i, calls |-> rest.calls] ELSE rest

\* VerifyFileWithLoader: the loop from chunk number i on
RECURSIVE VerifyLoop(_, _, _, _, _)
VerifyLoop(cs, i, algo, loader, calls) ==
    IF i > Len(cs) THEN [err |-> Nil, at |-> 0, calls |-> calls]
    ELSE LET key == HexHash(cs[i])
             l   == LoaderGet(loader, key)
             c2  == Append(calls, key)
         IN  IF l.err # Nil THEN [err |-> l.err, at |-> i, calls |-> c2]
             ELSE IF VerifyChunk(cs[i], l.data, algo) # Nil
                  THEN [err |-> VerifyChunk(cs[i], l.data, algo), at |-> i, calls |-> c2]
             ELSE VerifyLoop(cs, i + 1, algo, loader, c2)

\* w.Write(data), the k-th Write of the call
SinkWrite(sink, data, k, fault) ==
    IF fault.k = k
    THEN [err |-> "writeErr", sink |-> sink \o SubSeq(data, 1, Min2(fault.n, Len(data) - 1))]
    ELSE [err |-> Nil, sink |-> sink \o data]

\* For comparison: a reassembly that writes a chunk before it verifies it.
RECURSIVE ReassembleLoopWriteFirst(_, _, _, _, _, _, _)
ReassembleLoopWriteFirst(cs, i, algo, loader, fault, sink, calls) ==
    IF i > Len(cs) THEN [err |-> Nil, at |-> 0, sink |-> sink, calls |-> calls]
    ELSE LET key == HexHash(cs[i])
             l   == LoaderGet(loader, key)
             c2  == Append(calls, key)
             w   == SinkWrite(sink, l.data, i, fault)
         IN  IF l.err # Nil
             THEN [err |-> l.err, at |-> i, sink |-> sink, calls |-> c2]
             ELSE IF w.err # Nil
                  THEN [err |-> w.err, at |-> i, sink |-> w.sink, calls |-> c2]
             ELSE IF VerifyChunk(cs[i], l.data, algo) # Nil
                  THEN [err |-> VerifyChunk(cs[i], l.data, algo), at |-> i,
                        sink |-> w.sink, calls |-> c2]
             ELSE ReassembleLoopWriteFirst(cs, i + 1, algo, loader, fault, w.sink, c2)

\* ReassembleWithLoader: the loop from chunk number i on
RECURSIVE ReassembleLoop(_, _, _, _, _, _, _)
ReassembleLoop(cs, i, algo, loader, fault, sink, calls) ==
    IF i > Len(cs) THEN [err |-> Nil, at |-> 0, sink |-> sink, calls |-> calls]
    ELSE LET key == HexHash(cs[i])
             l   == LoaderGet(loader, key)
             c2  == Append(calls, key)
             w   == SinkWrite(sink, l.data, i, fault)
         IN  IF l.err # Nil
             THEN [err |-> l.err, at |-> i, sink |-> sink, calls |-> c2]
             ELSE IF VerifyChunk(cs[i], l.data, algo) # Nil
                  THEN [err |-> VerifyChunk(cs[i], l.data, algo), at |-> i,
                        sink |-> sink, calls |-> c2]
             ELSE IF w.err # Nil
                  THEN [err |-> w.err, at |-> i, sink |-> w.sink, calls |-> c2]
             ELSE ReassembleLoop(cs, i + 1, algo, loader, fault, w.sink, c2)

\* the chunk list of a file made of the pieces ds, with Size fields off by
\* the amounts in skew
ManChunkList(ds, skew) ==
    [i \in 1..Len(ds) |-> [Offset |-> TotalLen(ds, i - 1),
                           Size |-> Len(ds[i]) + skew[i],
                           Hash |-> Digest("sha256", ds[i])]]

manOnly == <<chunkerVars, readerVars, storeVars, writerVars, concVars,
             pStore, pAdd, pHist, fresh,
             mStore, mHist, mGot, look, cons, rwMu, rG, stHist, stLoad>>

\* file names as sequences of code units; "0xFF" is a byte that is no valid
\* UTF-8 (a name in a legacy encoding), "U+FFFD" the replacement character
ManNames == {<<"a">>, <<"a", "0xFF">>}

\* encoding/json on a string: coerced to valid UTF-8, every invalid byte
\* replaced by U+FFFD
JSONString(str) == [i \in 1..Len(str) |-> IF str[i] = "0xFF" THEN "U+FFFD" ELSE str[i]]

\* encoding/json on a []byte: the base64 text, here its digits
RECURSIVE Base64Encode(_)
Base64Encode(h) ==
    IF h < 64 THEN <<h>> ELSE Append(Base64Encode(h \div 64), h % 64)

RECURSIVE Base64Decode(_)
Base64Decode(t) ==
    IF t = <<>> THEN 0 ELSE 64 * Base64Decode(SubSeq(t, 1, Len(t) - 1)) + t[Len(t)]

ManPath == <<"m.json">>

\* json.MarshalIndent(m, "", " "): the exported fields under their tags
MarshalManifest(m) ==
    <<[t |-> "{"],
      [t |-> "file_name", v |-> JSONString(m.FileName)],
      [t |-> "file_size", v |-> m.FileSize],
      [t |-> "hash_algorithm", v |-> m.HashAlgorithm],
      [t |-> "chunks", v |-> [i \in 1..Len(m.Chunks) |->
                                 [Offset |-> m.Chunks[i].Offset, Size |-> m.Chunks[i].Size,
                                  Hash |-> Base64Encode(m.Chunks[i].Hash)]]],
      [t |-> "}"]>>

\* json.Unmarshal(data, &m)
UnmarshalManifest(doc) ==
    IF Len(doc) = 6 /\ doc[1].t = "{" /\ doc[6].t = "}"
    THEN [err |-> Nil,
          m |-> [FileName |-> doc[2].v, FileSize |-> doc[3].v, HashAlgorithm |-> doc[4].v,
                 Chunks |-> [i \in 1..Len(doc[5].v) |->
                                [Offset |-> doc[5].v[i].Offset, Size |-> doc[5].v[i].Size,
                                 Hash |-> Base64Decode(doc[5].v[i].Hash)]]]]
    ELSE [err |-> "syntaxErr", m |-> Nil]

\* m := NewManifest(name, fileSize, hashAlgo); m.Chunks = chunks
InitManifest ==
    /\ BaseIdle /\ IndexIdle /\ MemIdle /\ LookIdle /\ RWIdle /\ HistIdle
    /\ \E n \in 0..MaxChunks : \E ds \in [1..n -> ManData] : \E skew \in [1..n -> 0..1] :
       \E extra \in 0..1 : \E algo \in ManAlgos :
       \E loader \in ManLoaders : \E fault \in SinkFaults :
       \E name \in ManNames :
          man = [made |-> TRUE, FileName |-> name, FileSize |-> TotalLen(ds, n) + extra,
                 HashAlgorithm |-> algo, Chunks |-> ManChunkList(ds, skew),
                 data |-> ds, loader |-> loader, fault |-> fault]
    /\ mOp = [op |-> "none"]

\* m.VerifyFileWithLoader(load)
ManVerify ==
    /\ man.made
    /\ LET r == VerifyLoop(man.Chunks, 1, man.HashAlgorithm, man.loader, <<>>)
       IN  mOp' = [op |-> "verify", err |-> r.err, at |-> r.at, calls |-> r.calls]
    /\ UNCHANGED <<man, disk, manOnly>>

\* m.ReassembleWithLoader(load, &buf), buf empty
ManReassemble ==
    /\ man.made
    /\ LET r == ReassembleLoop(man.Chunks, 1, man.HashAlgorithm, man.loader, man.fault, <<>>, <<>>)
       IN  mOp' = [op |-> "reassemble", err |-> r.err, at |-> r.at, sink |-> r.sink,
                   calls |-> r.calls]
    /\ UNCHANGED <<man, disk, manOnly>>

\* m.Save(path): os.WriteFile(path, data, 0644)
ManSave ==
    /\ man.made
    /\ disk' = Put(disk, ManPath, File(MarshalManifest(man), FALSE))
    /\ mOp' = [op |-> "save", err |-> Nil]
    /\ UNCHANGED <<man, manOnly>>

\* manifest.Load(path)
ManLoad ==
    /\ man.made
    /\ IF ManPath \in DOMAIN disk
       THEN LET r == UnmarshalManifest(disk[ManPath].data)
            IN  mOp' = [op |-> "load", err |-> r.err, m |-> r.m]
       ELSE mOp' = [op |-> "load", err |-> "notExist", m |-> Nil]
    /\ UNCHANGED <<man, disk, manOnly>>

NextManifest == ManVerify \/ ManReassemble \/ ManSave \/ ManLoad

SpecManifest == InitManifest /\ [][NextManifest]_vars

\* chunk number i verifies: the loader has bytes for its hash, their digest
\* under HashAlgorithm is the chunk's Hash and their length its Size
ChunkVerifies(i) ==
    LET c == man.Chunks[i]
    IN  /\ HexHash(c) \in DOMAIN man.loader
        /\ man.HashAlgorithm \in SupportedAlgos
        /\ Digest(man.HashAlgorithm, man.loader[HexHash(c)]) = c.Hash
        /\ Len(man.loader[HexHash(c)]) = c.Size

\* C23: Reassemble returns without error if and only if every chunk
\* verifies, and then the sink has received exactly FileSize bytes, equal to
\* the original content.
C23_ReassembleIffAllVerify ==
    mOp.op = "reassemble" =>
        /\ mOp.err = Nil <=> \A i \in 1..Len(man.Chunks) : ChunkVerifies(i)
        /\ mOp.err = Nil => (Len(mOp.sink) = man.FileSize /\ mOp.sink = Concat(man.data))

\* C24: VerifyFile returns nil exactly when every chunk of the manifest
\* verifies; otherwise it returns an error for the first failing chunk in
\* manifest order and the loader is not called for any later chunk.
C24_VerifyStopsAtFirstFailure ==
    mOp.op = "verify" =>
        /\ mOp.err = Nil <=> \A i \in 1..Len(man.Chunks) : ChunkVerifies(i)
        /\ mOp.err # Nil =>
              /\ mOp.at \in 1..Len(man.Chunks)
              /\ ~ChunkVerifies(mOp.at)
              /\ \A j \in 1..(mOp.at - 1) : ChunkVerifies(j)
              /\ mOp.calls = [j \in 1..mOp.at |-> HexHash(man.Chunks[j])]
        /\ mOp.err = Nil => mOp.calls = [j \in 1..Len(man.Chunks) |-> HexHash(man.Chunks[j])]

C24_Witness ==
    /\ mOp.op = "verify" /\ Len(man.Chunks) = 2
    /\ mOp.err = "sizeMismatch" /\ mOp.at = 1 /\ Len(mOp.calls) = 1
    /\ HexHash(man.Chunks[2]) # HexHash(man.Chunks[1])
    /\ HexHash(man.Chunks[2]) \in DOMAIN man.loader

\* C25: for every manifest value, Save(path) followed by Load(path) yields a
\* manifest with the same FileName, FileSize and HashAlgorithm and the same
\* ordered chunks (Offset, Size and Hash of each).
C25_SaveLoadRoundTrip ==
    (mOp.op = "load" /\ ManPath \in DOMAIN disk) =>
        /\ mOp.err = Nil
        /\ mOp.m.FileName = man.FileName
        /\ mOp.m.FileSize = man.FileSize
        /\ mOp.m.HashAlgorithm = man.HashAlgorithm
        /\ mOp.m.Chunks = man.Chunks

\* the bytes the loader holds for the chunks 1..n of the manifest, in order
LoadedUpTo(n) == Concat([j \in 1..n |-> man.loader[HexHash(man.Chunks[j])]])

\* C36: Reassemble writes the chunks' bytes in manifest order, each only
\* after it has verified; when it fails at chunk i (load, verify or write
\* failure) the sink has received exactly the bytes of the chunks before i
\* and no later chunk is loaded.
C36_SinkHoldsExactlyTheChunksBeforeTheFailure ==
    mOp.op = "reassemble" =>
        /\ mOp.err = Nil =>
              /\ \A j \in 1..Len(man.Chunks) : ChunkVerifies(j)
              /\ mOp.sink = LoadedUpTo(Len(man.Chunks))
              /\ mOp.calls = [j \in 1..Len(man.Chunks) |-> HexHash(man.Chunks[j])]
        /\ mOp.err # Nil =>
              /\ mOp.at \in 1..Len(man.Chunks)
              /\ \A j \in 1..(mOp.at - 1) : ChunkVerifies(j)
              /\ mOp.sink = LoadedUpTo(mOp.at - 1)
              /\ mOp.calls = [j \in 1..mOp.at |-> HexHash(man.Chunks[j])]

\* C36 (amended): as C36, but when the failure at chunk i is a failure of
\* w.Write, the sink holds the bytes of the chunks before i followed by the
\* part of chunk i that the failing Write took; after a load or verify
\* failure it holds exactly the bytes of the chunks before i.
C36_SinkHoldsChunksBeforeAndPartOfFailedWrite ==
    mOp.op = "reassemble" =>
        /\ mOp.err = Nil =>
              /\ \A j \in 1..Len(man.Chunks) : ChunkVerifies(j)
              /\ mOp.sink = LoadedUpTo(Len(man.Chunks))
              /\ mOp.calls = [j \in 1..Len(man.Chunks) |-> HexHash(man.Chunks[j])]
        /\ mOp.err # Nil =>
              /\ mOp.at \in 1..Len(man.Chunks)
              /\ \A j \in 1..(mOp.at - 1) : ChunkVerifies(j)
              /\ mOp.calls = [j \in 1..mOp.at |-> HexHash(man.Chunks[j])]
              /\ IF mOp.err = "writeErr"
                 THEN /\ ChunkVerifies(mOp.at)
                      /\ \E part \in Prefixes(man.loader[HexHash(man.Chunks[mOp.at])]) :
                            mOp.sink = LoadedUpTo(mOp.at - 1) \o part
                 ELSE /\ ~ChunkVerifies(mOp.at)
                      /\ mOp.sink = LoadedUpTo(mOp.at - 1)

\* the Write of the second chunk failed after taking one of its two bytes
C36_Witness ==
    /\ mOp.op = "reassemble" /\ Len(man.Chunks) = 2
    /\ mOp.err = "writeErr" /\ mOp.at = 2
    /\ Len(man.loader[HexHash(man.Chunks[2])]) = 2
    /\ Len(mOp.sink) = Len(LoadedUpTo(1)) + 1

\* ---------------------------------------------------------------------------
\* ChunkReader made with any arguments and called as long as the caller
\* likes, also after an error or io.EOF (SpecReaderAny)
\* ---------------------------------------------------------------------------

\* hashAlgo arguments, one of them unknown to Hasher.New
AnyAlgos == {"", "sha1", "md5"}

AnyParams == {NewParams(1, 1, 1, Nil), NewParams(1, 2, 3, Nil), NewParams(2, 2, 2, Nil)}

\* NewChunkReader: the error it returns; only bufSize is looked at
NewChunkReaderErr(algo, bufSize) ==
    IF bufSize <= 0 THEN "bufSizeErr" ELSE Nil

\* a *ChunkReader was returned
HasReader == Len(buf) > 0

\* the source has signalled io.EOF in the last Read or in one before it
EofSeen == ret.kind # "none" /\ (ret.rd.err = "EOF" \/ ret.rd.eofBefore)

InitReaderAny ==
    /\ P \in AnyParams
    /\ ChunkerIdle /\ StoreIdle /\ WriterIdle /\ ConcIdle /\ IndexIdle /\ ExtIdle
    /\ stream \in SeqsUpTo(ByteVals, MaxLen)
    /\ srcPos = 0
    /\ \E algo \in AnyAlgos : \E bufSize \in 0..MaxBuf :
          IF NewChunkReaderErr(algo, bufSize) = Nil
          THEN LET cr == NewChunkReader(algo, bufSize)
               IN  /\ hashAlgo = cr.hashAlgo /\ buf = cr.buf
                   /\ offset = cr.offset /\ leftover = cr.leftover
                   /\ ret = [kind |-> "none"]
          ELSE /\ hashAlgo = algo /\ buf = <<>> /\ offset = 0 /\ leftover = 0
               /\ ret = ErrRet(NewChunkReaderErr(algo, bufSize))
    /\ chunks = <<>>
    /\ firstRun = [done |-> FALSE]

\* cr.Next(), whatever the last call returned; ret.rd keeps what the Read of
\* this call returned and the reader's fields before the call
ReaderNextAny ==
    /\ HasReader
    /\ \E o \in ReadOutcomes(Len(buf) - leftover, Len(stream) - srcPos) :
        LET b1 == ReadInto(buf, leftover, SubSeq(stream, srcPos + 1, srcPos + o.n))
            r  == NextAfterRead(b1, offset, leftover, hashAlgo, P, o.n, o.err)
        IN  /\ srcPos' = srcPos + o.n
            /\ buf' = r.buf
            /\ offset' = r.offset
            /\ leftover' = r.leftover
            /\ ret' = [rd |-> [n |-> o.n, err |-> o.err, offset |-> offset,
                               leftover |-> leftover, nchunks |-> Len(chunks),
                               eofBefore |-> EofSeen]] @@ r.ret
            /\ chunks' = IF r.ret.kind = "chunk"
                         THEN Append(chunks, [Offset |-> r.ret.Offset, Size |-> r.ret.Size,
                                              Hash |-> r.ret.Hash])
                         ELSE chunks
    /\ UNCHANGED <<stream, hashAlgo, firstRun, chunkerVars, storeVars, readerOnly>>

NextReaderAny == ReaderNextAny

SpecReaderAny == InitReaderAny /\ [][NextReaderAny]_vars

\* C26: NewChunkReader with a hash-algorithm name that the hash provider
\* does not support returns an error and no reader, so a ChunkReader that
\* was constructed never fails in Next because of an unsupported algorithm.
C26_UnsupportedAlgoFailsConstruction ==
    /\ hashAlgo \notin SupportedAlgos => ~HasReader
    /\ (HasReader /\ ret.kind = "err") => ret.err # "unsupported"

C29_ReadErrorPropagates ==
    (HasReader /\ ret.kind # "none" /\ ret.rd.n = 0 /\ ret.rd.err = "readErr") =>
        /\ ret.kind = "err" /\ ret.err = "readErr"
        /\ offset = ret.rd.offset /\ leftover = ret.rd.leftover
        /\ Len(chunks) = ret.rd.nchunks

C29_Witness ==
    /\ HasReader /\ ret.kind = "err" /\ ret.err = "readErr" /\ ret.rd.n = 0
    /\ leftover >= 2 /\ leftover = ret.rd.leftover /\ Len(chunks) >= 1

\* C27: when the sink write fails in WriteChunk, the call returns the error
\* with duplicate = false, the index does not hold the chunk's hash
\* afterwards and the writer's offset is unchanged; a later WriteChunk with
\* the same hash attempts the write again and is not reported a duplicate.
C27_FailedWriteIsNotRecorded ==
    /\ (wRet.called /\ wRet.err = "writeErr") =>
          /\ ~wRet.duplicate
          /\ ~MemExists(wIndex, EncodeToString(wHist.before.hash))
          /\ wIndex = wHist.before.index
          /\ wOffset = wHist.before.offset
    /\ (wRet.called /\ wHist.before.retry) =>
          /\ ~wRet.duplicate
          /\ wRet.err = Nil => (wRet.n > 0 /\ Len(wSink) = Len(wHist.before.sink) + wRet.n)

C27_Witness ==
    /\ wRet.called /\ wHist.before.retry
    /\ wRet.err = Nil /\ ~wRet.duplicate /\ wRet.n = 2
    /\ MemExists(wIndex, EncodeToString(wHist.before.hash))

\* ---------------------------------------------------------------------------
\* Chunker.NextBoundary called on any buffer, the empty one included
\* (SpecBoundary)
\* ---------------------------------------------------------------------------

\* cut := chunker.NextBoundary(buf), buf the whole data, of any length
BoundaryCall(c) ==
    /\ ~ckLast[c].called
    /\ LET r == NextBoundaryCall(P, ckData)
       IN  /\ P' = r.P
           /\ ckData' = r.buf
           /\ ckLast' = [ckLast EXCEPT ![c] = [called |-> TRUE, len |-> Len(ckData),
                                               cut |-> r.cut, buf |-> ckData]]
    /\ UNCHANGED <<ckOff, ckCuts, ckInit, readerVars, storeVars, writerVars, concVars,
                   indexVars, extVars>>

NextBoundaryAny == \E c \in Chunkers : BoundaryCall(c)

SpecBoundary == InitChunker /\ [][NextBoundaryAny]_vars

\* C30: for every buffer passed to NextBoundary and every Params, the cut
\* length returned satisfies 0 < cutLength <= len(buffer).
C30_CutIsPositiveAndWithinBuffer ==
    \A c \in Chunkers :
        ckLast[c].called => (0 < ckLast[c].cut /\ ckLast[c].cut <= ckLast[c].len)

\* hash after the first n bytes of bs: H(0) = 0, H(n) = (H(n-1) << 1) + table[bs[n]]
RECURSIVE GearHash(_, _, _)
GearHash(p, bs, n) ==
    IF n = 0 THEN Zero64 ELSE Shl1Add(GearHash(p, bs, n - 1), GetGear(p)[bs[n]])

\* the positions of bs at which the loop of NextBoundary returns
CutPositions(p, bs) ==
    {n \in 1..Len(bs) :
        /\ n >= p.MinSize
        /\ \/ n >= p.AvgSize /\ And64(GearHash(p, bs, n), p.Mask) = Zero64
           \/ n >= p.MaxSize}

\* C33: NextBoundary(buf) is the smallest n in 1..len(buf) with n >= MinSize
\* and ((n >= AvgSize and (H(n) & Mask) == 0) or n >= MaxSize), and len(buf)
\* when there is no such n.
C33_CutIsSmallestQualifyingPosition ==
    \A c \in Chunkers :
        ckLast[c].called =>
            LET S == CutPositions(P, ckLast[c].buf)
            IN  IF S = {} THEN ckLast[c].cut = ckLast[c].len
                ELSE /\ ckLast[c].cut \in S
                     /\ \A n \in S : ckLast[c].cut <= n

\* a content-defined cut before MaxSize and before the end of the buffer
C33_Witness ==
    \E c \in Chunkers :
        /\ ckLast[c].called
        /\ ckLast[c].cut < ckLast[c].len
        /\ ckLast[c].cut < P.MaxSize
        /\ ckLast[c].cut > P.MinSize
        /\ Cardinality(CutPositions(P, ckLast[c].buf)) >= 2

\* ---------------------------------------------------------------------------
\* FSStorage.Save statement by statement, beside Load calls of another
\* goroutine and a crash of the process at any point (SpecSaveLoad)
\* ---------------------------------------------------------------------------

SvKey == HexHash(ConcChunk)

\* the Load calls: reset by a crash; loaded remembers that a Load returned data
LoaderStart(crashed, loaded) ==
    [called |-> FALSE, pc |-> "idle", err |-> Nil, data |-> <<>>,
     crashed |-> crashed, loaded |-> loaded]

InitSaveLoad ==
    /\ P = NewParams(1, 1, 1, Nil)
    /\ ChunkerIdle /\ ReaderIdle /\ StoreIdle /\ WriterIdle /\ IndexIdle /\ ConcIdle
    /\ MemIdle /\ LookIdle /\ RWIdle /\ ManIdle
    /\ stHist = [calls |-> 0, saved |-> EmptyMap]
    /\ stLoad = LoaderStart(FALSE, FALSE)

\* _, err = f.Write(data): the bytes reach the temporary file one after the other
SvWrite(g) ==
    /\ fsG[g].pc = "write"
    /\ LET tmp == TmpPath(SvKey)
           n   == Len(stFiles[tmp])
       IN  \/ /\ n < Len(ConcData)
              /\ stFiles' = Put(stFiles, tmp, SubSeq(ConcData, 1, n + 1))
              /\ fsG' = fsG
           \/ /\ n = Len(ConcData)
              /\ stFiles' = stFiles
              /\ fsG' = Moved(fsG, g, "sync", NoUpd)
           \/ /\ n < Len(ConcData)
              /\ stFiles' = stFiles
              /\ fsG' = Moved(fsG, g, "unlock", NoUpd)
    /\ UNCHANGED <<mu, stIndex, fsFrame>>

\* if err := f.Sync(); err != nil { return }; if err := f.Close(); err != nil { return }
SvSyncClose(g) ==
    /\ fsG[g].pc \in {"sync", "close"}
    /\ \/ fsG' = Moved(fsG, g, IF fsG[g].pc = "sync" THEN "close" ELSE "rename", NoUpd)
       \/ fsG' = Moved(fsG, g, "unlock", NoUpd)
    /\ UNCHANGED <<mu, stFiles, stIndex, fsFrame>>

\* if err := fs.index.Add(chunk); err != nil { _ = os.Remove(filePath); return }
SvAdd(g) ==
    /\ fsG[g].pc = "add"
    /\ \/ /\ stIndex' = MemAdd(stIndex, ConcChunk)
          /\ stFiles' = stFiles
          /\ fsG' = Moved(fsG, g, "unlock", [added |-> TRUE])
       \/ /\ stIndex' = stIndex
          /\ stFiles' \in {stFiles, Del(stFiles, SvKey)}
          /\ fsG' = Moved(fsG, g, "unlock", NoUpd)
    /\ UNCHANGED <<mu, fsFrame>>

svFrame == <<mu, cwG, fsG, stFiles, stIndex, stHist, writerVars, saveErr, mChunks, verify,
             chunkerVars, readerVars, indexVars,
             mStore, mHist, mGot, look, cons, rwMu, rG, man, mOp>>

\* Load: exists, err := fs.ChunkExists(hash); if !exists { return nil, os.ErrNotExist }
LdCheck ==
    /\ stLoad.pc = "idle"
    /\ stLoad' = IF ChunkExists(stIndex, SvKey)
                 THEN [stLoad EXCEPT !.pc = "read"]
                 ELSE [stLoad EXCEPT !.called = TRUE, !.err = "ErrNotExist", !.data = <<>>]
    /\ UNCHANGED svFrame

\* Load: data, err := os.ReadFile(filePath)
LdRead ==
    /\ stLoad.pc = "read"
    /\ stLoad' = IF SvKey \in DOMAIN stFiles
                 THEN [stLoad EXCEPT !.pc = "idle", !.called = TRUE, !.err = Nil,
                                     !.data = stFiles[SvKey], !.loaded = TRUE]
                 ELSE [stLoad EXCEPT !.pc = "idle", !.called = TRUE, !.err = "readErr",
                                     !.data = <<>>]
    /\ UNCHANGED svFrame

\* What a crash can leave of the files: the temporary file, unless it was
\* fsynced, may hold any part of what was written to it or be gone; a
\* rename that had not reached the disk is undone.
SaveCrashImages(files, G) ==
    LET tmp == TmpPath(SvKey)
        synced == \E g \in Goroutines : G[g].pc \in {"close", "rename"}
        tmps == IF tmp \notin DOMAIN files \/ tmp = SvKey THEN {files}
                ELSE IF synced THEN {files}
                ELSE {Del(files, tmp)} \cup {Put(files, tmp, d) : d \in Prefixes(files[tmp])}
        undone == IF /\ tmp # SvKey /\ SvKey \in DOMAIN files
                     /\ \E g \in Goroutines : G[g].pc \in {"add", "unlock"} /\ G[g].wrote
                  THEN {Put(Del(files, SvKey), tmp, files[SvKey])}
                  ELSE {}
    IN  tmps \cup undone

\* the process dies at any point of the calls; the next run opens a new
\* FSStorage on the same directory with a new MemoryIndex and calls again
SvCrash ==
    /\ ~stLoad.crashed
    /\ \E g \in Goroutines : fsG[g].pc # "start"
    /\ stFiles' \in SaveCrashImages(stFiles, fsG)
    /\ stIndex' = EmptyMap
    /\ mu' = [mu EXCEPT !.fs = 0]
    /\ fsG' = [g \in Goroutines |-> [pc |-> "start", saw |-> "none", wrote |-> FALSE, added |-> FALSE]]
    /\ stLoad' = LoaderStart(TRUE, stLoad.loaded)
    /\ UNCHANGED <<cwG, stHist, writerVars, saveErr, mChunks, verify, chunkerVars, readerVars,
                   indexVars, mStore, mHist, mGot, look, cons, rwMu, rG, man, mOp>>

NextSaveLoad ==
    \/ \E g \in Goroutines :
          \/ FsLock(g) \/ FsCheck(g) \/ FsCreate(g) \/ SvWrite(g) \/ SvSyncClose(g)
          \/ FsRename(g) \/ SvAdd(g) \/ FsUnlock(g)
    \/ LdCheck \/ LdRead \/ SvCrash

SpecSaveLoad == InitSaveLoad /\ [][NextSaveLoad]_vars

\* C34: at every point of Save, a crash after any step and concurrent Load
\* calls on the same store included, the file at the final path hex(hash)
\* does not exist or holds the complete data passed to Save, and Load never
\* returns a partially written blob.
C34_FinalPathNeverTorn ==
    /\ SvKey \in DOMAIN stFiles => stFiles[SvKey] = ConcData
    /\ (stLoad.called /\ stLoad.err = Nil) => stLoad.data = ConcData

\* after a crash a Save is half way through its temporary file beside the
\* complete blob, and a Load has returned data
C34_Witness ==
    /\ stLoad.crashed /\ stLoad.loaded
    /\ SvKey \in DOMAIN stFiles
    /\ TmpPath(SvKey) \in DOMAIN stFiles
    /\ Len(stFiles[TmpPath(SvKey)]) = 1
    /\ \E g \in Goroutines : fsG[g].pc = "write"

\* ---------------------------------------------------------------------------
\* PersistentIndexJSON in one process: Add calls that can fail at any step,
\* and lookups between them (SpecIndexCalls)
\* ---------------------------------------------------------------------------

\* p.ExistsWithErr(hash), between two Adds: a miss in memory reloads the map
IndexLookup ==
    /\ pAdd.pc = "idle"
    /\ \E ch \in IndexChunks :
        LET hash == EncodeToString(ch.Hash)
        IN  /\ pStore' = IF hash \in DOMAIN pStore THEN pStore
                         ELSE Load(pStore, disk, IndexPath)
            /\ fresh' = [made |-> FALSE, looked |-> TRUE, hash |-> hash,
                         ok |-> PExists(pStore, disk, IndexPath, hash)]
    /\ UNCHANGED <<disk, pAdd, pHist, indexOnly>>

NextIndexCalls ==
    \/ \E ch \in IndexChunks : AddBegin(ch)
    \/ AddCreate \/ AddWrite \/ AddSync \/ AddClose \/ AddRename \/ AddCommit
    \/ IndexLookup

SpecIndexCalls == InitIndex /\ [][NextIndexCalls]_vars

\* the last Add has returned an error
AddFailed == pAdd.pc = "idle" /\ "err" \in DOMAIN pAdd /\ pAdd.err # Nil

\* C35: an Add that fails at any step leaves the in-memory map and the
\* document on disk as they were before it, and between the calls of one
\* process the in-memory map is the content of the document on disk once the
\* document exists.
C35_FailedAddChangesNothing ==
    /\ AddFailed => (pStore = pHist.before /\ PathHolds(pHist.before))
    /\ (pAdd.pc = "idle" /\ IndexPath \in DOMAIN disk) =>
          /\ Unmarshal(disk[IndexPath].data).err = Nil
          /\ Unmarshal(disk[IndexPath].data).store = pStore

\* an Add failed after an earlier one had written the document, and a lookup
\* followed
C35_Witness ==
    /\ AddFailed
    /\ pAdd.err = "renameErr"
    /\ IndexPath \in DOMAIN disk
    /\ DOMAIN pStore # {}
    /\ pHist.after # pHist.before
    /\ "looked" \in DOMAIN fresh

\* C37: between Next calls, whatever the source does: 0 <= leftover < len(buf),
\* buf[0..leftover) holds exactly the stream bytes at [offset, offset+leftover),
\* which are the bytes read from the source and not yet emitted, and offset is
\* the total Size of the chunks emitted so far; so the Read into buf[leftover:]
\* always has room for at least one byte.
C37_LeftoverIsTheUnemittedStreamRange ==
    HasReader =>
        /\ 0 <= leftover /\ leftover < Len(buf)
        /\ Len(buf) - leftover >= 1
        /\ SubSeq(buf, 1, leftover) = StreamRange(offset, leftover)
        /\ offset + leftover = srcPos
        /\ offset = SumSizes(chunks, Len(chunks))

\* the buffers a caller can pass
Buffers == SeqsUpTo(ByteVals, MaxLen)

\* C38: boundaries are prefix-stable: when NextBoundary(buf) returns c with
\* c < len(buf), NextBoundary returns c for every buffer of length >= c whose
\* first c bytes are those of buf (same Params and table).
C38_CutDependsOnlyOnItsPrefix ==
    \A c \in Chunkers :
        (ckLast[c].called /\ ckLast[c].cut < ckLast[c].len) =>
            \A b2 \in Buffers :
                (/\ Len(b2) >= ckLast[c].cut
                 /\ SubSeq(b2, 1, ckLast[c].cut) = SubSeq(ckLast[c].buf, 1, ckLast[c].cut))
                    => NextBoundary(P, b2) = ckLast[c].cut

\* a cut before the end of a three-byte buffer, at a position where a rule
\* of the loop fired on the hash and not on MaxSize
C38_Witness ==
    \E c \in Chunkers :
        /\ ckLast[c].called /\ ckLast[c].len = MaxLen
        /\ ckLast[c].cut < ckLast[c].len
        /\ ckLast[c].cut < P.MaxSize
        /\ \E b2 \in Buffers : /\ b2 # ckLast[c].buf
                               /\ Len(b2) >= ckLast[c].cut
                               /\ SubSeq(b2, 1, ckLast[c].cut)
                                     = SubSeq(ckLast[c].buf, 1, ckLast[c].cut)

\* k with Mask = 2^k - 1
MaskWidth(p) == MaskBits(p.AvgSize, 0)

\* C39: with Mask = 2^k - 1 the value (hash & Mask) tested at position n >= k
\* depends only on the last k bytes buf[n-k+1..n]: two buffers that agree on
\* those bytes get the same value there, whatever their earlier bytes are,
\* under wrapping 64-bit arithmetic.
C39_MaskedHashDependsOnLastBytes ==
    \A c \in Chunkers :
        ckLast[c].called =>
            LET k == MaskWidth(P)
                b1 == ckLast[c].buf
            IN  \A n \in k..Len(b1) : \A b2 \in Buffers :
                    (Len(b2) >= n /\ SubSeq(b2, n - k + 1, n) = SubSeq(b1, n - k + 1, n))
                        => And64(GearHash(P, b2, n), P.Mask) = And64(GearHash(P, b1, n), P.Mask)

\* two buffers that differ before their last k bytes: their hashes differ
\* at the last position and agree under the mask
C39_Witness ==
    \E c \in Chunkers :
        /\ ckLast[c].called /\ ckLast[c].len = MaxLen
        /\ MaskWidth(P) >= 1 /\ MaskWidth(P) < MaxLen
        /\ \E b2 \in Buffers :
              LET k == MaskWidth(P)
                  b1 == ckLast[c].buf
              IN  /\ Len(b2) = MaxLen
                  /\ SubSeq(b2, MaxLen - k + 1, MaxLen) = SubSeq(b1, MaxLen - k + 1, MaxLen)
                  /\ GearHash(P, b2, MaxLen) # GearHash(P, b1, MaxLen)
                  /\ And64(GearHash(P, b2, MaxLen), P.Mask) = And64(GearHash(P, b1, MaxLen), P.Mask)

\* ---------------------------------------------------------------------------
\* NewParams over the whole range of int (64 bits), its loop included
\* (SpecParams).  An int is its sign and the limbs of its magnitude.
\* ---------------------------------------------------------------------------

IntOf(neg, mag) == [neg |-> neg, mag |-> mag]

\* 2^k as limbs, k in 0..63
Pow2Limbs(k) == [i \in Limbs |-> IF i - 1 = k \div 16 THEN 2^(k % 16) ELSE 0]

\* a < b for limbs, from the top limb down
RECURSIVE LimbsLess(_, _, _)
LimbsLess(a, b, i) ==
    IF i = 0 THEN FALSE
    ELSE IF a[i] # b[i] THEN a[i] < b[i]
    ELSE LimbsLess(a, b, i - 1)

\* a < b for ints
IntLess(a, b) ==
    IF a.neg # b.neg THEN a.neg
    ELSE IF a.neg THEN LimbsLess(b.mag, a.mag, 4)
    ELSE LimbsLess(a.mag, b.mag, 4)

\* 1 << bits as an int: 2^bits up to bits = 62, the most negative int for
\* bits = 63 (the bit lands in the sign), 0 from bits = 64 on
OneShl(bits) ==
    IF bits <= 62 THEN IntOf(FALSE, Pow2Limbs(bits))
    ELSE IF bits = 63 THEN IntOf(TRUE, Pow2Limbs(63))
    ELSE IntOf(FALSE, Zero64)

\* var bits uint; for (1 << bits) < avg { bits++ }: the bits it ends with.
\* Once bits is 64 the shift yields 0 for every later count while avg > 0,
\* so the loop does not end: -1.
RECURSIVE MaskBitsInt(_, _)
MaskBitsInt(avg, bits) ==
    IF bits >= 64 THEN -1
    ELSE IF IntLess(OneShl(bits), avg) THEN MaskBitsInt(avg, bits + 1)
    ELSE bits

\* uint64((1 << bits) - 1)
MaskOfBits(bits) ==
    [i \in Limbs |-> IF i - 1 < bits \div 16 THEN LimbBase - 1
                     ELSE IF i - 1 = bits \div 16 THEN 2^(bits % 16) - 1
                     ELSE 0]

\* NewParams(min, avg, max, gear): the Params returned, if the call returns
NewParamsInt(min, avg, max, gear) ==
    LET bits == MaskBitsInt(avg, 0)
    IN  IF bits = -1 THEN [called |-> TRUE, returned |-> FALSE]
        ELSE [called |-> TRUE, returned |-> TRUE,
              MinSize |-> min, AvgSize |-> avg, MaxSize |-> max,
              Mask |-> MaskOfBits(bits), Gear |-> gear]

\* the avg arguments: negative, zero, small, and around the powers of two
\* up to the largest int
AvgChoices ==
    {IntOf(TRUE, U64OfNat(1))}
        \cup {IntOf(FALSE, U64OfNat(n)) : n \in 0..9}
        \cup {IntOf(FALSE, m) : m \in {<<65535, 0, 0, 0>>, <<0, 1, 0, 0>>, <<1, 1, 0, 0>>,
                                         <<0, 0, 1, 0>>, <<1, 0, 1, 0>>,
                                         <<0, 0, 0, 16384>>, <<1, 0, 0, 16384>>,
                                         <<65535, 65535, 65535, 32767>>}}

SizeChoices == {IntOf(TRUE, U64OfNat(1))} \cup {IntOf(FALSE, U64OfNat(n)) : n \in 0..2}

\* the arguments of the call are drawn; no Params yet
InitParams ==
    /\ P = [called |-> FALSE]
    /\ ReaderIdle /\ StoreIdle /\ WriterIdle /\ ConcIdle /\ IndexIdle /\ ExtIdle
    /\ ckData = <<>>
    /\ ckOff = [c \in Chunkers |-> 0]
    /\ ckCuts = [c \in Chunkers |-> <<>>]
    /\ ckLast = [c \in Chunkers |-> [called |-> FALSE, len |-> 0, cut |-> 0]]
    /\ \E mn \in SizeChoices : \E av \in AvgChoices : \E mx \in SizeChoices :
       \E g \in GearChoices :
          ckInit = [P |-> Nil, data |-> <<>>,
                    args |-> [min |-> mn, avg |-> av, max |-> mx, gear |-> g]]

\* params := fastcdc.NewParams(min, avg, max, gear)
NewParamsCall ==
    /\ ~P.called
    /\ P' = NewParamsInt(ckInit.args.min, ckInit.args.avg, ckInit.args.max, ckInit.args.gear)
    /\ UNCHANGED <<ckData, ckOff, ckCuts, ckLast, ckInit, readerVars, storeVars, writerVars,
                   concVars, indexVars, extVars>>

NextParams == NewParamsCall

SpecParams == InitParams /\ [][NextParams]_vars

\* the exponents k in 0..63 with 2^k >= avg
PowersAtLeast(avg) ==
    {k \in 0..63 : avg.neg \/ ~LimbsLess(Pow2Limbs(k), avg.mag, 4)}

\* the smallest member of a non-empty set of numbers
Smallest(S) == CHOOSE k \in S : \A j \in S : k <= j

\* C40: NewParams(min, avg, max, gear) sets Mask to P - 1 for the smallest
\* power of two P >= avg (avg - 1 where avg is a power of two, 0 where
\* avg <= 1), copies min, avg and max unchanged and validates nothing.
C40_MaskIsNextPowerOfTwoMinusOne ==
    P.called =>
        /\ P.returned
        /\ P.MinSize = ckInit.args.min
        /\ P.AvgSize = ckInit.args.avg
        /\ P.MaxSize = ckInit.args.max
        /\ P.Mask = MaskOfBits(Smallest(PowersAtLeast(ckInit.args.avg)))

=============================================================================
